---- MODULE Spec2Model ----
(***************************************************************************)
(* Model of the LoRA training worker (services/lora-training): the         *)
(* orchestrator TrainingPipeline.process_training_job and the collaborators *)
(* whose code decides its behaviour (JobDatabase, VideoProcessor,          *)
(* DatasetBuilder, FalAIProvider, S3Storage.download_from_url,             *)
(* send_webhook and the webhook payload builders).                         *)
(*                                                                         *)
(* The job store holds one record per Job id.  A worker executes            *)
(* process_training_job on a Job; every collaborator call is a step that    *)
(* may succeed or raise.  The local disk is a set of path tokens.           *)
(***************************************************************************)
EXTENDS Integers, Sequences, FiniteSets, TLC

\* ---------------------------------------------------------------- bounds
\* Number of process_training_job invocations on the Job.
MaxRuns == 2
\* Largest number of frames one extraction returns.
MaxExtracted == 16
\* Largest number of extracted frames the quality filter rejects.
MaxRejected == 1
\* Number of worker slots.
NumWorkers == 2
\* Largest artifact size, in bytes.
MaxLoraSize == 1
\* Number of Job ids in the job store.
NumJobs == 2
\* Longest frame list handed to the dataset builder, and highest frame number.
MaxFrameList == 3
\* Most windows an interval extraction is asked for.
MaxWindows == 12
\* Scenes of one video: the cuts ffmpeg prints, plus one.
MaxScenes == 4
\* Calls made on the job store on its own.
MaxStoreCalls == 3

\* ------------------------------------------------------ program constants
\* DatasetBuilder.__init__ defaults (the pipeline constructs it with them).
BuilderMinFrames == 15
BuilderMaxFrames == 50
\* Config.min_frames, read by the orchestrator's gate.
ConfigMinFrames == 10
\* webhook_notifier.MAX_ATTEMPTS
MAX_ATTEMPTS == 3

Workers == 1..NumWorkers
JobIds == 1..NumJobs
\* lora_name arguments of the requests.
LoraNames == {"avatar", "pet"}

\* Python's None, for string-valued fields.
None == "<None>"
\* update_job_status called without a progress argument.
NoProgress == -1

VARIABLES
    jobs,           \* the job store: Job id -> Job record
    fs,             \* local disk: set of path tokens
    blobs,          \* blob store: set of keys uploaded
    writers,        \* workers the dispatch layer may hand the Job to
    runs,           \* invocations started so far
    pc,             \* per worker: position in process_training_job
    builder,        \* per worker: dataset builder wired in ("DatasetBuilder" or "Stub")
    tempJobDir,     \* per worker: temp_job_dir (None or the directory token)
    videoResult,    \* per worker: what process_video returned
    survivors,      \* per worker: frames left when build_dataset checked its minimum
    dataset,        \* per worker: what build_dataset returned
    trainingResult, \* per worker: what provider.train returned
    loraSize,       \* per worker: size of the downloaded artifact
    jobRead,        \* per worker: the record returned by the last db.get_job
    version,        \* per worker: the version number computed at line 130
    webhookResult,  \* per worker: what send_webhook returned (line 190)
    excMsg,         \* per worker: str(e) of the exception caught at line 208, or None
    failedAt,       \* per worker: the step whose exception was caught, or None
    raisedMsg,      \* per worker: str() of the exception that leaves the call
    outcome,        \* per worker: "none", "returned" or "raised"
    result,         \* per worker: the dictionary returned
    sent,           \* per worker: webhook events posted in this run
    calls,          \* per worker: collaborator calls made in this run, in order
    args,           \* per worker: the job_id and lora_name it is invoked with
    datasetWriter,  \* per lora_name: the worker whose build_dataset last wrote
                    \* output_dir/<lora_name> (0: nobody)
    failureNotice,  \* per worker: what the send_webhook of line 216 returned
    hook,           \* a send_webhook call made on its own: arguments and result
    progressLowered, \* per Job id: some write has lowered the stored progress
    unit            \* a call of one component made on its own: arguments and result

vars == <<jobs, fs, blobs, writers, runs, pc, builder, tempJobDir, videoResult,
          survivors, dataset,
          trainingResult, loraSize, jobRead, version, webhookResult, excMsg, failedAt,
          raisedMsg, outcome, result, sent, calls, args, datasetWriter,
          failureNotice, hook, progressLowered, unit>>

\* The Job the single-writer runs work on.
job == jobs[1]
\* The Job worker w was invoked on: db.get_job(job_id).
JobOf(w) == jobs[args[w].job_id]

\* ----------------------------------------------------------- job store
\* db.update_job_status: the $set document applied to the Job.
UpdateJobStatus(j, status, progress, error) ==
    LET j1 == [j EXCEPT !.status = status]
        j2 == IF progress # NoProgress THEN [j1 EXCEPT !.progress = progress] ELSE j1
        j3 == IF status = "processing" /\ progress = 0
              THEN [j2 EXCEPT !.startedAt = TRUE] ELSE j2
        j4 == IF status = "completed"
              THEN [j3 EXCEPT !.completedAt = TRUE, !.progress = 100] ELSE j3
    IN  IF error # None /\ error # "" THEN [j4 EXCEPT !.error = error] ELSE j4

\* An add_version that replaces a Version of the same number instead of
\* pushing a second one.
UpsertVersion(j, versionData) ==
    LET others == SelectSeq(j.versions, LAMBDA v : v.version # versionData.version)
    IN  [j EXCEPT !.versions = Append(others, versionData),
                  !.storageBytes = @ + versionData.sizeBytes]

\* An add_version that pushes the Version and leaves the counter alone.
PushOnly(j, versionData) == [j EXCEPT !.versions = Append(@, versionData)]

\* version_data.get("sizeBytes", 0)
SizeBytes(versionData) ==
    IF "sizeBytes" \in DOMAIN versionData THEN versionData.sizeBytes ELSE 0
\* db.add_version: $push versions, $inc usage.storageBytes.
AddVersion(j, versionData) ==
    [j EXCEPT !.versions = Append(@, versionData),
              !.storageBytes = @ + SizeBytes(versionData)]

\* The update of lines 196-204: webhookAttempts / webhookLastError.
SetWebhookStatus(j, wr) ==
    [j EXCEPT !.webhookAttempts = IF "attempts" \in wr.keys THEN wr.attempts ELSE 0,
              !.webhookLastError = IF ~wr.success THEN wr.error ELSE None]

\* ------------------------------------------------------------ local disk
Path(kind, owner, name) == [kind |-> kind, owner |-> owner, name |-> name]
\* tempfile.mkdtemp(prefix="lora_job_<id>_") and the files written into it.
JobDir(w) == Path("jobdir", w, "")
SourceVideo(w) == Path("jobdir", w, "source_video.mp4")
LoraFile(w) == Path("jobdir", w, "lora.safetensors")
ConfigFile(w) == Path("jobdir", w, "config.json")
\* VideoProcessor: temp_dir/video_<job_id>.mp4 and temp_dir/frames/<job_id>.
VideoCopy(id) == Path("temp", id, "video_<id>.mp4")
FramesDir(id) == Path("temp", id, "frames/<id>")
FrameFiles(id) == Path("temp", id, "frames/<id>/frame_NNNN.jpg")
\* FalAIProvider.upload_dataset: NamedTemporaryFile(suffix=".zip", delete=False).
ZipFile(w) == Path("zip", w, "tmp.zip")
\* DatasetBuilder: output_dir/<dataset_name>.
DatasetDir(name) == Path("dataset", 0, name)

\* Transient paths of one job execution (everything but the dataset bundle).
Transient(w) == {JobDir(w), SourceVideo(w), LoraFile(w), ConfigFile(w),
                 VideoCopy(args[w].job_id), FramesDir(args[w].job_id),
                 FrameFiles(args[w].job_id), ZipFile(w)}

\* shutil.rmtree(temp_job_dir, ignore_errors=True): the directory and its files.
RmTree(disk, w) == {p \in disk : ~(p.kind = "jobdir" /\ p.owner = w)}

\* A finally block that used os.rmdir: only an empty directory is removed.
FinallyRmdir(disk, dir, w) ==
    IF dir # None /\ JobDir(w) \in disk /\ RmTree(disk, w) = disk \ {JobDir(w)}
    THEN RmTree(disk, w) ELSE disk

\* The finally block, lines 223-227.
FinallyCleanup(disk, dir, w) ==
    IF dir # None /\ JobDir(w) \in disk THEN RmTree(disk, w) ELSE disk

\* ------------------------------------------------------------- messages
DbError == "job store unavailable"
FrameCountAttributeError == "'TrainingDataset' object has no attribute 'frame_count'"
NoneUrlAttributeError == "'NoneType' object has no attribute 'startswith'"
InsufficientBuild == "Dataset build failed: Insufficient frames: n < 15 required"
InsufficientGate == "Insufficient frames after filtering: n (minimum: 10)"
ProviderError == "fal.ai: training request rejected"
\* A collaborator that raises does so with its own message or with an
\* exception whose str() is empty (e.g. a bare TimeoutError()).
Raised(msg) == {msg, ""}

\* ------------------------------------------------------------- webhooks
\* What one POST attempt can meet: a response with an HTTP status, a timeout
\* (asyncio.TimeoutError), or any other exception (a connection error).
Status(n) == [kind |-> "status", status |-> n]
Timeout == [kind |-> "timeout", status |-> 0]
ConnectionError == [kind |-> "error", status |-> 0]
\* The endpoints the orchestrator's notifications meet.
Responses == {Status(200), Status(500), Timeout}
\* The behaviour of the endpoint over the attempts of one send_webhook call.
EndpointBehaviours == [1..MAX_ATTEMPTS -> Responses]

\* line 48: response.status >= 200 and response.status < 300
WithAnyStatusFrom200(response) ==
    response.kind = "status" /\ response.status >= 200
IsSuccessStatus(response) ==
    response.kind = "status" /\ response.status >= 200 /\ response.status < 300

\* error_msg of a failed attempt: line 59 for a timeout, line 75 (str(e),
\* with e raised at line 56 or by the HTTP client) otherwise.
AttemptError(response) ==
    IF response.kind = "timeout" THEN "Webhook timeout after 10s"
    ELSE IF response.kind = "status"
    THEN "Webhook returned " \o ToString(response.status)
    ELSE "Cannot connect to host"

\* delay = 2 ** (attempt - 1), in seconds: line 63 after a timeout, line 79
\* after any other failure.
OneSecondDelay(attempt) == 1
TimeoutDelay(attempt) == 2 ^ (attempt - 1)
DoubledDelay(attempt) == 2 ^ attempt
ErrorDelay(attempt) == 2 ^ (attempt - 1)

\* The result of the recursive call of line 66 / 82, made after sleeping
\* `delay` seconds; posts and waits observe the whole call.
AfterRetry(r, delay) ==
    [r EXCEPT !.posts = @ + 1, !.waits = <<delay>> \o @]
\* lines 68-72 and 84-88
GiveUp(response, attempt) ==
    [success |-> FALSE, attempts |-> attempt, error |-> AttemptError(response),
     keys |-> {"success", "error", "attempts"}, posts |-> 1, waits |-> <<>>]

\* send_webhook(webhook_url, payload, attempt): the returned dictionary.
\* keys is the set of keys the dictionary holds (attempts is 0 and error is
\* None when the dictionary lacks them); posts is the number of HTTP POSTs
\* the call made and waits the delays it slept, in order.
RECURSIVE SendWebhook(_, _, _)
SendWebhook(url, behaviour, attempt) ==
    IF url = None \/ url = ""
    THEN [success |-> FALSE, attempts |-> 0, error |-> "No webhook URL",
          keys |-> {"success", "error"}, posts |-> 0, waits |-> <<>>]
    ELSE IF IsSuccessStatus(behaviour[attempt])
    THEN [success |-> TRUE, attempts |-> attempt, error |-> None,
          keys |-> {"success", "status_code", "attempts"},
          posts |-> 1, waits |-> <<>>]
    ELSE IF behaviour[attempt].kind = "timeout"
    THEN IF attempt < MAX_ATTEMPTS
         THEN AfterRetry(SendWebhook(url, behaviour, attempt + 1), TimeoutDelay(attempt))
         ELSE GiveUp(behaviour[attempt], attempt)
    ELSE IF attempt < MAX_ATTEMPTS
         THEN AfterRetry(SendWebhook(url, behaviour, attempt + 1), ErrorDelay(attempt))
         ELSE GiveUp(behaviour[attempt], attempt)

\* A completion payload that carries the lora field for every job type.
CompletionPayloadWithLora(jobData, res) ==
    [event |-> "job.completed", status |-> "completed", type |-> jobData.type,
     error |-> None, hasLora |-> TRUE, loraVersion |-> res.version]

\* create_completion_payload(job_data, result)
CreateCompletionPayload(jobData, res) ==
    [event |-> "job.completed", status |-> "completed", type |-> jobData.type,
     error |-> None,
     hasLora |-> (jobData.type = "lora-training"),
     loraVersion |-> IF jobData.type = "lora-training" THEN res.version ELSE 0]

\* create_failure_payload(job_data, error)
CreateFailurePayload(jobData, error) ==
    [event |-> "job.failed", status |-> "failed", type |-> jobData.type,
     error |-> error, hasLora |-> FALSE, loraVersion |-> 0]

\* send_webhook(webhook_url, payload): what is handed to the notifier.
Posted(url, payload) == [url |-> url, payload |-> payload]

\* A notifier that is called whatever the record holds.
WithOrWithoutUrl(jobData) == TRUE

\* `job and job.get('webhookUrl')`
HasWebhook(jobData) == jobData.webhookUrl # None /\ jobData.webhookUrl # ""

\* ------------------------------------------------------- collaborators
\* VideoProcessor.process_video: the outcomes of one call, each the returned
\* dictionary (only the keys the orchestrator could read) and the disk after.
\* A VideoProcessingError is caught at line 449 and becomes a returned
\* dictionary with success False and frames [].
\* Frame counts an extraction returns: none, or around the builder's minimum.
ExtractedCounts == {0} \cup ((BuilderMinFrames - 1)..MaxExtracted)
VideoFailure(msg) == [success |-> FALSE, frames |-> 0, error |-> msg]
ProcessVideo(disk, id) ==
    \* download_video raises: nothing was copied
    { [ret |-> VideoFailure("Failed to copy/save video"), disk |-> disk] }
    \cup
    \* detect_scenes / extract_intervals raises: the copy is left behind
    { [ret |-> VideoFailure("Failed to detect scenes"),
       disk |-> disk \cup {VideoCopy(id)}] }
    \cup
    \* extract_frames raises after creating the frames directory
    { [ret |-> VideoFailure("Failed to extract frames"),
       disk |-> disk \cup {VideoCopy(id), FramesDir(id)}] }
    \cup
    \* n frames extracted, then video_path.unlink()
    { [ret |-> [success |-> TRUE, frames |-> n, error |-> None],
       disk |-> (disk \cup {FramesDir(id)}
                      \cup (IF n > 0 THEN {FrameFiles(id)} ELSE {}))
                \ {VideoCopy(id)}] : n \in ExtractedCounts }

\* DatasetBuilder.build_dataset on `accepted` frames left by the quality
\* filter: "raise" with the DatasetBuildError message, or the TrainingDataset.
\* A TrainingDataset has image_count and no frame_count attribute.
NoDataset == [attrs |-> {}, count |-> 0]
\* build_dataset has not counted the frames of this run.
NotBuilt == -1
BuildDataset(accepted) ==
    IF accepted < BuilderMinFrames
    THEN [raise |-> InsufficientBuild, ret |-> NoDataset]
    ELSE [raise |-> None,
          ret |-> [attrs |-> {"dataset_dir", "images_dir", "captions_dir",
                              "image_count", "trigger_phrase", "metadata"},
                   count |-> IF accepted > BuilderMaxFrames
                             THEN BuilderMaxFrames ELSE accepted]]

\* The dataset builder of tests/conftest.py and of
\* test_training_pipeline_handles_insufficient_frames: an object with
\* dataset_dir, frame_count and caption_count, whatever the frames.
StubFrameCounts == {5, 25}
StubDataset(count) ==
    [attrs |-> {"dataset_dir", "frame_count", "caption_count"}, count |-> count]

\* A gate that reads dataset.frame_count and compares it with nothing.
GateWithoutMinimum(ds) ==
    IF "frame_count" \notin ds.attrs THEN FrameCountAttributeError ELSE None

\* The orchestrator's gate, lines 82-88: reads dataset.frame_count.
GateOutcome(ds) ==
    IF "frame_count" \notin ds.attrs THEN FrameCountAttributeError
    ELSE IF ds.count < ConfigMinFrames THEN InsufficientGate
    ELSE None

\* FalAIProvider.train: every exception is caught at line 194 and returned
\* as TrainingResult(success=False, error=str(e)).  zip tells whether the
\* archive of upload_dataset is left on disk.
NoTraining == [success |-> FALSE, lora_url |-> None, error |-> None]
TrainFailure(msg) == [success |-> FALSE, lora_url |-> None, error |-> msg]
Train ==
    { [ret |-> TrainFailure("Dataset validation failed"), zip |-> FALSE],
      \* upload_file(zip_path) raises before zip_path.unlink()
      [ret |-> TrainFailure("fal.ai upload failed"), zip |-> TRUE],
      [ret |-> TrainFailure(ProviderError), zip |-> FALSE],
      \* the response lacks diffusers_lora_file: lora_url is None
      [ret |-> [success |-> TRUE, lora_url |-> None, error |-> None], zip |-> FALSE],
      [ret |-> [success |-> TRUE, lora_url |-> "https://fal/lora", error |-> None],
       zip |-> FALSE] }

\* S3Storage.download_from_url(url, local_path): the messages it can raise
\* with (None: it returns).  url.startswith on None is an AttributeError.
DownloadFromUrl(url) ==
    IF url = None THEN {NoneUrlAttributeError}
    ELSE {None} \cup Raised("download failed")

\* Blob keys: loras/<user>/<job>/v<version>/{model.safetensors,config.json}
\* and datasets/<user>/<job>/...
BlobKey(kind, id, v) == [kind |-> kind, job |-> id, version |-> v]

\* call records
Call(op, arg) == [op |-> op, arg |-> arg, progress |-> NoProgress, error |-> None]
StatusCall(status, progress, error) ==
    [op |-> "update_job_status", arg |-> status, progress |-> progress, error |-> error]

\* ---------------------------------------------------------------- state
NoResult == [modelUrl |-> None, s3Key |-> BlobKey("none", 0, 0), sizeBytes |-> 0,
             version |-> 0]
NoWebhookResult == [success |-> FALSE, attempts |-> 0, error |-> None, keys |-> {},
                    posts |-> 0, waits |-> <<>>]
NoVideo == [success |-> FALSE, frames |-> 0, error |-> None]

\* The Job as the API gateway created it: queued, with or without a webhook.
NewJob(webhookUrl, type) ==
    [status |-> "queued", progress |-> 0, error |-> None, versions |-> <<>>,
     storageBytes |-> 0, webhookUrl |-> webhookUrl, type |-> type,
     startedAt |-> FALSE, completedAt |-> FALSE,
     webhookAttempts |-> 0, webhookLastError |-> None]

\* Before the first db.get_job of a run.
NoJobRead == NewJob(None, "other")

\* (webhookUrl, type) of the Jobs the gateway creates.
JobShapes == {<<None, "lora-training">>, <<"https://hook", "lora-training">>,
              <<"https://hook", "other">>}

InitLocals ==
    /\ pc = [w \in Workers |-> "idle"]
    /\ builder = [w \in Workers |-> "DatasetBuilder"]
    /\ tempJobDir = [w \in Workers |-> None]
    /\ videoResult = [w \in Workers |-> NoVideo]
    /\ survivors = [w \in Workers |-> NotBuilt]
    /\ dataset = [w \in Workers |-> NoDataset]
    /\ trainingResult = [w \in Workers |-> NoTraining]
    /\ loraSize = [w \in Workers |-> 0]
    /\ jobRead = [w \in Workers |-> NoJobRead]
    /\ version = [w \in Workers |-> 0]
    /\ webhookResult = [w \in Workers |-> NoWebhookResult]
    /\ excMsg = [w \in Workers |-> None]
    /\ failedAt = [w \in Workers |-> None]
    /\ raisedMsg = [w \in Workers |-> None]
    /\ outcome = [w \in Workers |-> "none"]
    /\ result = [w \in Workers |-> NoResult]
    /\ sent = [w \in Workers |-> <<>>]
    /\ calls = [w \in Workers |-> <<>>]
    /\ failureNotice = [w \in Workers |-> NoWebhookResult]

\* No send_webhook call is being made on its own.
HookIdle == [pc |-> "idle", url |-> None, behaviour |-> <<>>, ret |-> NoWebhookResult]

\* No component is being called on its own.
UnitIdle == [op |-> "none", pc |-> "idle"]

\* The job store holding Jobs of one shape, an empty disk, no run started.
InitStoreAs(shape) ==
    /\ jobs = [id \in JobIds |-> NewJob(shape[1], shape[2])]
    /\ fs = {}
    /\ blobs = {}
    /\ runs = 0
    /\ datasetWriter = [name \in LoraNames |-> 0]
    /\ progressLowered = [id \in JobIds |-> FALSE]
    /\ InitLocals

\* The job store as the API gateway filled it, an empty disk, no run started.
InitStore ==
    /\ \E shape \in JobShapes : jobs = [id \in JobIds |-> NewJob(shape[1], shape[2])]
    /\ fs = {}
    /\ blobs = {}
    /\ runs = 0
    /\ datasetWriter = [name \in LoraNames |-> 0]
    /\ progressLowered = [id \in JobIds |-> FALSE]
    /\ InitLocals

\* Single-writer execution: the dispatch layer hands Job 1 to worker 1.
Init ==
    /\ InitStore
    /\ writers = {1}
    /\ args = [w \in Workers |-> [job_id |-> 1, lora_name |-> "avatar"]]
    /\ hook = HookIdle
    /\ unit = UnitIdle

\* ------------------------------------------------------ step helpers
Goto(w, label) == pc' = [pc EXCEPT ![w] = label]
\* A write to the record of the Job worker w was invoked on.
Store(w, rec) ==
    /\ jobs' = [jobs EXCEPT ![args[w].job_id] = rec]
    /\ progressLowered' = [progressLowered EXCEPT ![args[w].job_id] =
                              @ \/ rec.progress < JobOf(w).progress]
Log(w, c) == calls' = [calls EXCEPT ![w] = Append(@, c)]
\* An exception raised inside the try block at `step` reaches line 208.
Caught(w, step, msg) ==
    /\ Goto(w, "except_update")
    /\ excMsg' = [excMsg EXCEPT ![w] = msg]
    /\ failedAt' = [failedAt EXCEPT ![w] = step]
NoCatch == UNCHANGED <<excMsg, failedAt>>
\* An exception raised inside the except block leaves through finally.
Escapes(w, msg) ==
    /\ Goto(w, "finally")
    /\ raisedMsg' = [raisedMsg EXCEPT ![w] = msg]
    /\ outcome' = [outcome EXCEPT ![w] = "raised"]

\* `await db.update_job_status(job_id, status, progress=progress)` inside try.
Checkpoint(w, at, next, status, progress) ==
    /\ pc[w] = at
    /\ Log(w, StatusCall(status, progress, None))
    /\ \/ /\ Store(w, UpdateJobStatus(JobOf(w), status, progress, None))
          /\ Goto(w, next)
          /\ NoCatch
       \/ /\ \E m \in {DbError} : Caught(w, at, m)
          /\ UNCHANGED <<jobs, progressLowered>>
    /\ UNCHANGED <<fs, blobs, writers, runs, builder, tempJobDir, videoResult, survivors,
                   dataset, trainingResult, loraSize, jobRead, version,
                   webhookResult, raisedMsg, outcome, result, sent>>
    /\ UNCHANGED <<args, datasetWriter, failureNotice, hook, unit>>

\* --------------------------------------- process_training_job, step by step
\* The dispatch layer invokes process_training_job(job_id, ...), line 32-48.
Start(w) ==
    /\ w \in writers
    /\ pc[w] \in {"idle", "ended"}
    /\ runs < MaxRuns
    /\ runs' = runs + 1
    /\ Goto(w, "update_0")
    /\ \E b \in {"DatasetBuilder", "Stub"} : builder' = [builder EXCEPT ![w] = b]
    /\ tempJobDir' = [tempJobDir EXCEPT ![w] = None]
    /\ videoResult' = [videoResult EXCEPT ![w] = NoVideo]
    /\ survivors' = [survivors EXCEPT ![w] = NotBuilt]
    /\ dataset' = [dataset EXCEPT ![w] = NoDataset]
    /\ trainingResult' = [trainingResult EXCEPT ![w] = NoTraining]
    /\ loraSize' = [loraSize EXCEPT ![w] = 0]
    /\ jobRead' = [jobRead EXCEPT ![w] = NoJobRead]
    /\ version' = [version EXCEPT ![w] = 0]
    /\ webhookResult' = [webhookResult EXCEPT ![w] = NoWebhookResult]
    /\ excMsg' = [excMsg EXCEPT ![w] = None]
    /\ failedAt' = [failedAt EXCEPT ![w] = None]
    /\ raisedMsg' = [raisedMsg EXCEPT ![w] = None]
    /\ outcome' = [outcome EXCEPT ![w] = "none"]
    /\ result' = [result EXCEPT ![w] = NoResult]
    /\ sent' = [sent EXCEPT ![w] = <<>>]
    /\ calls' = [calls EXCEPT ![w] = <<>>]
    /\ failureNotice' = [failureNotice EXCEPT ![w] = NoWebhookResult]
    /\ UNCHANGED <<jobs, progressLowered, fs, blobs, writers>>
    /\ UNCHANGED <<args, datasetWriter, hook, unit>>

\* line 52
Update0(w) == Checkpoint(w, "update_0", "mkdtemp", "processing", 0)

\* line 56-57: tempfile.mkdtemp
MkDTemp(w) ==
    /\ pc[w] = "mkdtemp"
    /\ Log(w, Call("mkdtemp", ""))
    /\ \/ /\ fs' = fs \cup {JobDir(w)}
          /\ tempJobDir' = [tempJobDir EXCEPT ![w] = "lora_job_dir"]
          /\ Goto(w, "update_10")
          /\ NoCatch
       \/ /\ \E m \in {"mkdtemp failed"} : Caught(w, "mkdtemp", m)
          /\ UNCHANGED <<fs, tempJobDir>>
    /\ UNCHANGED <<jobs, progressLowered, blobs, writers, runs, builder, videoResult, survivors, dataset,
                   trainingResult, loraSize, jobRead, version, webhookResult,
                   raisedMsg, outcome, result, sent>>
    /\ UNCHANGED <<args, datasetWriter, failureNotice, hook, unit>>

\* line 61
Update10(w) == Checkpoint(w, "update_10", "download_source", "processing", 10)

\* line 62: s3_storage.download_from_url(video_url, temp_video_path)
DownloadSource(w) ==
    /\ pc[w] = "download_source"
    /\ Log(w, Call("download_from_url", "source"))
    /\ \E r \in DownloadFromUrl("https://video") :
          IF r = None
          THEN /\ fs' = fs \cup {SourceVideo(w)}
               /\ Goto(w, "update_20")
               /\ NoCatch
          ELSE /\ Caught(w, "download_source", r)
               /\ UNCHANGED fs
    /\ UNCHANGED <<jobs, progressLowered, blobs, writers, runs, builder, tempJobDir, videoResult, survivors,
                   dataset, trainingResult, loraSize, jobRead, version,
                   webhookResult, raisedMsg, outcome, result, sent>>
    /\ UNCHANGED <<args, datasetWriter, failureNotice, hook, unit>>

\* line 66
Update20(w) == Checkpoint(w, "update_20", "process_video", "processing", 20)

\* line 67-70: self.video_processor.process_video(...)
ProcessVideoStep(w) ==
    /\ pc[w] = "process_video"
    /\ Log(w, Call("process_video", ""))
    /\ \E o \in ProcessVideo(fs, args[w].job_id) :
          /\ videoResult' = [videoResult EXCEPT ![w] = o.ret]
          /\ fs' = o.disk
    /\ Goto(w, "update_35")
    /\ UNCHANGED <<jobs, progressLowered, blobs, writers, runs, builder, tempJobDir, survivors, dataset,
                   trainingResult, loraSize, jobRead, version, webhookResult,
                   excMsg, failedAt, raisedMsg, outcome, result, sent>>
    /\ UNCHANGED <<args, datasetWriter, failureNotice, hook, unit>>

\* line 74
Update35(w) == Checkpoint(w, "update_35", "build_dataset", "processing", 35)

\* line 75-80: self.dataset_builder.build_dataset(frames=video_result["frames"], ...)
\* DatasetBuilder filters the frames (rejecting up to MaxRejected of them),
\* then builds or raises; the stub returns its object whatever the frames.
BuildDatasetStep(w) ==
    /\ pc[w] = "build_dataset"
    /\ Log(w, Call("build_dataset", ""))
    /\ \/ /\ builder[w] = "DatasetBuilder"
          /\ \E rejected \in 0..MaxRejected :
                /\ rejected <= videoResult[w].frames
                /\ survivors' = [survivors EXCEPT ![w] = videoResult[w].frames - rejected]
                /\ LET b == BuildDataset(videoResult[w].frames - rejected)
                   IN  IF b.raise = None
                       THEN /\ dataset' = [dataset EXCEPT ![w] = b.ret]
                            /\ fs' = fs \cup {DatasetDir(args[w].lora_name)}
                            /\ datasetWriter' =
                                  [datasetWriter EXCEPT ![args[w].lora_name] = w]
                            /\ Goto(w, "check_frames")
                            /\ NoCatch
                       ELSE /\ Caught(w, "build_dataset", b.raise)
                            /\ UNCHANGED <<dataset, fs, datasetWriter>>
       \/ /\ builder[w] = "DatasetBuilder"
          /\ videoResult[w].frames >= BuilderMinFrames
          /\ survivors' = [survivors EXCEPT ![w] = videoResult[w].frames]
          \* shutil.copy2 / write_text raises: wrapped at line 228-230
          /\ Caught(w, "build_dataset", "Dataset build failed: copy failed")
          /\ fs' = fs \cup {DatasetDir(args[w].lora_name)}
          /\ datasetWriter' = [datasetWriter EXCEPT ![args[w].lora_name] = w]
          /\ UNCHANGED dataset
       \/ /\ builder[w] = "Stub"
          /\ \E c \in StubFrameCounts :
                /\ dataset' = [dataset EXCEPT ![w] = StubDataset(c)]
                /\ survivors' = [survivors EXCEPT ![w] = c]
          /\ Goto(w, "check_frames")
          /\ NoCatch
          /\ UNCHANGED <<fs, datasetWriter>>
    /\ UNCHANGED <<jobs, progressLowered, blobs, writers, runs, builder, tempJobDir, videoResult,
                   trainingResult, loraSize, jobRead, version, webhookResult,
                   raisedMsg, outcome, result, sent>>
    /\ UNCHANGED <<args, failureNotice, hook, unit>>

\* line 82-88: the minimum-frames gate
CheckFrames(w) ==
    /\ pc[w] = "check_frames"
    /\ IF GateOutcome(dataset[w]) = None
       THEN Goto(w, "update_50") /\ NoCatch
       ELSE Caught(w, "check_frames", GateOutcome(dataset[w]))
    /\ UNCHANGED <<jobs, progressLowered, fs, blobs, writers, runs, builder, tempJobDir, videoResult, survivors,
                   dataset, trainingResult, loraSize, jobRead, version,
                   webhookResult, raisedMsg, outcome, result, sent, calls>>
    /\ UNCHANGED <<args, datasetWriter, failureNotice, hook, unit>>

\* line 92
Update50(w) == Checkpoint(w, "update_50", "upload_directory", "processing", 50)

\* line 93-97: s3_storage.upload_directory(dataset.dataset_dir, prefix)
UploadDirectory(w) ==
    /\ pc[w] = "upload_directory"
    /\ Log(w, Call("upload_directory", ""))
    /\ \/ /\ blobs' = blobs \cup {BlobKey("dataset", args[w].job_id, 0)}
          /\ Goto(w, "update_60")
          /\ NoCatch
       \/ /\ \E m \in Raised("dataset upload failed") : Caught(w, "upload_directory", m)
          /\ UNCHANGED blobs
    /\ UNCHANGED <<jobs, progressLowered, fs, writers, runs, builder, tempJobDir, videoResult, survivors,
                   dataset, trainingResult, loraSize, jobRead, version,
                   webhookResult, raisedMsg, outcome, result, sent>>
    /\ UNCHANGED <<args, datasetWriter, failureNotice, hook, unit>>

\* line 102
Update60(w) == Checkpoint(w, "update_60", "train", "processing", 60)

\* line 110-116: self.provider.train(...); the result's success flag is not read
TrainStep(w) ==
    /\ pc[w] = "train"
    /\ Log(w, Call("train", ""))
    /\ \E o \in Train :
          /\ trainingResult' = [trainingResult EXCEPT ![w] = o.ret]
          /\ fs' = IF o.zip THEN fs \cup {ZipFile(w)} ELSE fs
    /\ Goto(w, "update_85")
    /\ UNCHANGED <<jobs, progressLowered, blobs, writers, runs, builder, tempJobDir, videoResult, survivors,
                   dataset, loraSize, jobRead, version, webhookResult, excMsg,
                   failedAt, raisedMsg, outcome, result, sent>>
    /\ UNCHANGED <<args, datasetWriter, failureNotice, hook, unit>>

\* line 120
Update85(w) == Checkpoint(w, "update_85", "download_lora", "processing", 85)

\* line 121-122: s3_storage.download_from_url(training_result.lora_url, temp_lora_path)
DownloadLora(w) ==
    /\ pc[w] = "download_lora"
    /\ Log(w, Call("download_from_url", "artifact"))
    /\ \E r \in DownloadFromUrl(trainingResult[w].lora_url) :
          IF r = None
          THEN /\ fs' = fs \cup {LoraFile(w)}
               /\ \E size \in 1..MaxLoraSize : loraSize' = [loraSize EXCEPT ![w] = size]
               /\ Goto(w, "update_95")
               /\ NoCatch
          ELSE /\ Caught(w, "download_lora", r)
               /\ UNCHANGED <<fs, loraSize>>
    /\ UNCHANGED <<jobs, progressLowered, blobs, writers, runs, builder, tempJobDir, videoResult, survivors,
                   dataset, trainingResult, jobRead, version, webhookResult,
                   raisedMsg, outcome, result, sent>>
    /\ UNCHANGED <<args, datasetWriter, failureNotice, hook, unit>>

\* line 126
Update95(w) == Checkpoint(w, "update_95", "get_job_version", "processing", 95)

\* An allocation that numbers every Version 1.
AlwaysFirstVersion(jobData) == 1

\* line 129-130: job = await db.get_job(job_id); version = len(versions) + 1
NextVersion(jobData) == Len(jobData.versions) + 1
GetJobVersion(w) ==
    /\ pc[w] = "get_job_version"
    /\ Log(w, Call("get_job", "version"))
    /\ \/ /\ jobRead' = [jobRead EXCEPT ![w] = JobOf(w)]
          /\ version' = [version EXCEPT ![w] = NextVersion(JobOf(w))]
          /\ Goto(w, "upload_lora")
          /\ NoCatch
       \/ /\ \E m \in {DbError} : Caught(w, "get_job_version", m)
          /\ UNCHANGED <<jobRead, version>>
    /\ UNCHANGED <<jobs, progressLowered, fs, blobs, writers, runs, builder, tempJobDir, videoResult, survivors,
                   dataset, trainingResult, loraSize, webhookResult, raisedMsg,
                   outcome, result, sent>>
    /\ UNCHANGED <<args, datasetWriter, failureNotice, hook, unit>>

\* line 132-153: upload the artifact, write and upload config.json, getsize
UploadLora(w) ==
    /\ pc[w] = "upload_lora"
    /\ Log(w, Call("upload_file", "artifact"))
    /\ \/ /\ blobs' = blobs \cup {BlobKey("lora", args[w].job_id, version[w]), BlobKey("config", args[w].job_id, version[w])}
          /\ fs' = fs \cup {ConfigFile(w)}
          /\ Goto(w, "add_version")
          /\ NoCatch
       \/ \* upload_file(temp_lora_path, ...) raises
          /\ \E m \in Raised("artifact upload failed") : Caught(w, "upload_lora", m)
          /\ UNCHANGED <<blobs, fs>>
       \/ \* upload_file(config_local_path, ...) raises
          /\ Caught(w, "upload_lora", "config upload failed")
          /\ blobs' = blobs \cup {BlobKey("lora", args[w].job_id, version[w])}
          /\ fs' = fs \cup {ConfigFile(w)}
    /\ UNCHANGED <<jobs, progressLowered, writers, runs, builder, tempJobDir, videoResult, survivors, dataset,
                   trainingResult, loraSize, jobRead, version, webhookResult,
                   raisedMsg, outcome, result, sent>>
    /\ UNCHANGED <<args, datasetWriter, failureNotice, hook, unit>>

\* line 158-170
VersionData(w) ==
    [version |-> version[w], s3Key |-> BlobKey("lora", args[w].job_id, version[w]),
     sizeBytes |-> loraSize[w], frame_count |-> dataset[w].count]

\* line 172: await db.add_version(job_id, version_data)
AddVersionStep(w) ==
    /\ pc[w] = "add_version"
    /\ Log(w, Call("add_version", ""))
    /\ \/ /\ Store(w, AddVersion(JobOf(w), VersionData(w)))
          /\ Goto(w, "update_completed")
          /\ NoCatch
       \/ /\ \E m \in {DbError} : Caught(w, "add_version", m)
          /\ UNCHANGED <<jobs, progressLowered>>
    /\ UNCHANGED <<fs, blobs, writers, runs, builder, tempJobDir, videoResult, survivors,
                   dataset, trainingResult, loraSize, jobRead, version,
                   webhookResult, raisedMsg, outcome, result, sent>>
    /\ UNCHANGED <<args, datasetWriter, failureNotice, hook, unit>>

\* line 175
UpdateCompleted(w) == Checkpoint(w, "update_completed", "build_result", "completed", 100)

\* line 179-184
BuildResult(w) ==
    /\ pc[w] = "build_result"
    /\ result' = [result EXCEPT ![w] =
                     [modelUrl |-> "https://bucket.s3.amazonaws.com/lora",
                      s3Key |-> BlobKey("lora", args[w].job_id, version[w]),
                      sizeBytes |-> loraSize[w], version |-> version[w]]]
    /\ Goto(w, "get_job_webhook")
    /\ UNCHANGED <<jobs, progressLowered, fs, blobs, writers, runs, builder, tempJobDir, videoResult, survivors,
                   dataset, trainingResult, loraSize, jobRead, version,
                   webhookResult, excMsg, failedAt, raisedMsg, outcome, sent, calls>>
    /\ UNCHANGED <<args, datasetWriter, failureNotice, hook, unit>>

\* line 187-188: job = await db.get_job(job_id); if job and job.get('webhookUrl')
GetJobWebhook(w) ==
    /\ pc[w] = "get_job_webhook"
    /\ Log(w, Call("get_job", "webhook"))
    /\ \/ /\ jobRead' = [jobRead EXCEPT ![w] = JobOf(w)]
          /\ Goto(w, IF HasWebhook(JobOf(w)) THEN "send_completion" ELSE "return")
          /\ NoCatch
       \/ /\ \E m \in {DbError} : Caught(w, "get_job_webhook", m)
          /\ UNCHANGED jobRead
    /\ UNCHANGED <<jobs, progressLowered, fs, blobs, writers, runs, builder, tempJobDir, videoResult, survivors,
                   dataset, trainingResult, loraSize, version, webhookResult,
                   raisedMsg, outcome, result, sent>>
    /\ UNCHANGED <<args, datasetWriter, failureNotice, hook, unit>>

\* line 190-193: await send_webhook(job['webhookUrl'], create_completion_payload(job, result))
SendCompletion(w) ==
    /\ pc[w] = "send_completion"
    /\ Log(w, Call("send_webhook", "job.completed"))
    /\ sent' = [sent EXCEPT ![w] =
                   Append(@, Posted(jobRead[w].webhookUrl,
                                    CreateCompletionPayload(jobRead[w], result[w])))]
    /\ \E behaviour \in EndpointBehaviours :
          webhookResult' = [webhookResult EXCEPT ![w] =
                               SendWebhook(jobRead[w].webhookUrl, behaviour, 1)]
    /\ Goto(w, "update_webhook")
    /\ UNCHANGED <<jobs, progressLowered, fs, blobs, writers, runs, builder, tempJobDir, videoResult, survivors,
                   dataset, trainingResult, loraSize, jobRead, version, excMsg,
                   failedAt, raisedMsg, outcome, result>>
    /\ UNCHANGED <<args, datasetWriter, failureNotice, hook, unit>>

\* line 196-204: await db.jobs.update_one({"jobId": job_id}, {"$set": {...}})
UpdateWebhook(w) ==
    /\ pc[w] = "update_webhook"
    /\ Log(w, Call("update_one", "webhook"))
    /\ \/ /\ Store(w, SetWebhookStatus(JobOf(w), webhookResult[w]))
          /\ Goto(w, "return")
          /\ NoCatch
       \/ /\ \E m \in {DbError} : Caught(w, "update_webhook", m)
          /\ UNCHANGED <<jobs, progressLowered>>
    /\ UNCHANGED <<fs, blobs, writers, runs, builder, tempJobDir, videoResult, survivors,
                   dataset, trainingResult, loraSize, jobRead, version,
                   webhookResult, raisedMsg, outcome, result, sent>>
    /\ UNCHANGED <<args, datasetWriter, failureNotice, hook, unit>>

\* line 206: return result (through finally)
Return(w) ==
    /\ pc[w] = "return"
    /\ Goto(w, "finally")
    /\ outcome' = [outcome EXCEPT ![w] = "returned"]
    /\ UNCHANGED <<jobs, progressLowered, fs, blobs, writers, runs, builder, tempJobDir, videoResult, survivors,
                   dataset, trainingResult, loraSize, jobRead, version,
                   webhookResult, excMsg, failedAt, raisedMsg, result, sent, calls>>
    /\ UNCHANGED <<args, datasetWriter, failureNotice, hook, unit>>

\* line 208-210: except Exception as e: await db.update_job_status(job_id, "failed", error=str(e))
ExceptUpdate(w) ==
    /\ pc[w] = "except_update"
    /\ Log(w, StatusCall("failed", NoProgress, excMsg[w]))
    /\ \/ /\ Store(w, UpdateJobStatus(JobOf(w), "failed", NoProgress, excMsg[w]))
          /\ Goto(w, "except_get_job")
          /\ UNCHANGED <<raisedMsg, outcome>>
       \/ /\ \E m \in {DbError} : Escapes(w, m)
          /\ UNCHANGED <<jobs, progressLowered>>
    /\ UNCHANGED <<fs, blobs, writers, runs, builder, tempJobDir, videoResult, survivors,
                   dataset, trainingResult, loraSize, jobRead, version,
                   webhookResult, excMsg, failedAt, result, sent>>
    /\ UNCHANGED <<args, datasetWriter, failureNotice, hook, unit>>

\* line 213-214: job = await db.get_job(job_id); if job and job.get('webhookUrl')
ExceptGetJob(w) ==
    /\ pc[w] = "except_get_job"
    /\ Log(w, Call("get_job", "failure webhook"))
    /\ \/ /\ jobRead' = [jobRead EXCEPT ![w] = JobOf(w)]
          /\ Goto(w, IF HasWebhook(JobOf(w)) THEN "except_webhook" ELSE "reraise")
          /\ UNCHANGED <<raisedMsg, outcome>>
       \/ /\ \E m \in {DbError} : Escapes(w, m)
          /\ UNCHANGED jobRead
    /\ UNCHANGED <<jobs, progressLowered, fs, blobs, writers, runs, builder, tempJobDir, videoResult, survivors,
                   dataset, trainingResult, loraSize, version, webhookResult,
                   excMsg, failedAt, result, sent>>
    /\ UNCHANGED <<args, datasetWriter, failureNotice, hook, unit>>

\* line 216-219: await send_webhook(job['webhookUrl'], create_failure_payload(job, str(e)))
\* The returned dictionary is dropped.
ExceptWebhook(w) ==
    /\ pc[w] = "except_webhook"
    /\ Log(w, Call("send_webhook", "job.failed"))
    /\ sent' = [sent EXCEPT ![w] =
                   Append(@, Posted(jobRead[w].webhookUrl,
                                    CreateFailurePayload(jobRead[w], excMsg[w])))]
    /\ \E behaviour \in EndpointBehaviours :
          failureNotice' = [failureNotice EXCEPT ![w] =
                               SendWebhook(jobRead[w].webhookUrl, behaviour, 1)]
    /\ Goto(w, "reraise")
    /\ UNCHANGED <<jobs, progressLowered, fs, blobs, writers, runs, builder, tempJobDir, videoResult, survivors,
                   dataset, trainingResult, loraSize, jobRead, version,
                   webhookResult, excMsg, failedAt, raisedMsg, outcome, result>>
    /\ UNCHANGED <<args, datasetWriter, hook, unit>>

\* line 221: raise (the exception caught at line 208, through finally)
Reraise(w) ==
    /\ pc[w] = "reraise"
    /\ Escapes(w, excMsg[w])
    /\ UNCHANGED <<jobs, progressLowered, fs, blobs, writers, runs, builder, tempJobDir, videoResult, survivors,
                   dataset, trainingResult, loraSize, jobRead, version,
                   webhookResult, excMsg, failedAt, result, sent, calls>>
    /\ UNCHANGED <<args, datasetWriter, failureNotice, hook, unit>>

\* line 223-227: finally; then the call has returned or raised
Finally(w) ==
    /\ pc[w] = "finally"
    /\ fs' = FinallyCleanup(fs, tempJobDir[w], w)
    /\ Goto(w, "ended")
    /\ UNCHANGED <<jobs, progressLowered, blobs, writers, runs, builder, tempJobDir, videoResult, survivors,
                   dataset, trainingResult, loraSize, jobRead, version,
                   webhookResult, excMsg, failedAt, raisedMsg, outcome, result,
                   sent, calls>>
    /\ UNCHANGED <<args, datasetWriter, failureNotice, hook, unit>>

\* One step of worker w in process_training_job.
Step(w) ==
    \/ Start(w)
    \/ Update0(w)
    \/ MkDTemp(w)
    \/ Update10(w)
    \/ DownloadSource(w)
    \/ Update20(w)
    \/ ProcessVideoStep(w)
    \/ Update35(w)
    \/ BuildDatasetStep(w)
    \/ CheckFrames(w)
    \/ Update50(w)
    \/ UploadDirectory(w)
    \/ Update60(w)
    \/ TrainStep(w)
    \/ Update85(w)
    \/ DownloadLora(w)
    \/ Update95(w)
    \/ GetJobVersion(w)
    \/ UploadLora(w)
    \/ AddVersionStep(w)
    \/ UpdateCompleted(w)
    \/ BuildResult(w)
    \/ GetJobWebhook(w)
    \/ SendCompletion(w)
    \/ UpdateWebhook(w)
    \/ Return(w)
    \/ ExceptUpdate(w)
    \/ ExceptGetJob(w)
    \/ ExceptWebhook(w)
    \/ Reraise(w)
    \/ Finally(w)

Next == \E w \in Workers : Step(w)

\* Single-writer execution: the dispatch layer hands the Job to one worker.
Spec == Init /\ [][Next]_vars

\* ------------------------------------------- send_webhook on its own
\* The webhook_url arguments: missing, empty, or a URL.
HookUrls == {None, "", "https://hook"}
\* Statuses around the edges of 200..299, a timeout, a connection error.
HookResponses == {Status(199), Status(200), Status(299), Status(300),
                  Timeout, ConnectionError}
HookBehaviours == [1..MAX_ATTEMPTS -> HookResponses]

pipelineVars == <<jobs, fs, blobs, writers, runs, pc, builder, tempJobDir, videoResult,
                  survivors, dataset, trainingResult, loraSize, jobRead, version,
                  webhookResult, excMsg, failedAt, raisedMsg, outcome, result, sent,
                  calls, args, datasetWriter, failureNotice, progressLowered>>

\* A caller is about to await send_webhook(url, payload) against an endpoint.
HookInit ==
    /\ InitStore
    /\ writers = {}
    /\ args = [w \in Workers |-> [job_id |-> 1, lora_name |-> "avatar"]]
    /\ \E url \in HookUrls, behaviour \in HookBehaviours :
          hook = [pc |-> "call", url |-> url, behaviour |-> behaviour,
                  ret |-> NoWebhookResult]
    /\ unit = UnitIdle

\* await send_webhook(webhook_url, payload): attempt defaults to 1.
Deliver ==
    /\ hook.pc = "call"
    /\ hook' = [hook EXCEPT !.pc = "returned",
                            !.ret = SendWebhook(hook.url, hook.behaviour, 1)]
    /\ UNCHANGED <<pipelineVars, unit>>

HookNext == Deliver

SpecWebhook == HookInit /\ [][HookNext]_vars

\* ------------------------------------------- overlapping invocations
\* app.py:86 hands every request to BackgroundTasks with no lock and no
\* check of the Job's status, so two coroutines of process_training_job can
\* be in flight in the one event loop.
\* The second invocation's arguments: the same Job, or another Job with the
\* same or another lora_name.
SecondArgs ==
    {[job_id |-> 1, lora_name |-> "avatar"],
     [job_id |-> 2, lora_name |-> "avatar"],
     [job_id |-> 2, lora_name |-> "pet"]}

ConcurrentInit ==
    /\ InitStore
    /\ writers = {1, 2}
    /\ \E second \in SecondArgs :
          args = [w \in Workers |->
                    IF w = 2 THEN second ELSE [job_id |-> 1, lora_name |-> "avatar"]]
    /\ hook = HookIdle
    /\ unit = UnitIdle

\* The statements of process_training_job that are awaited: a coroutine can
\* be suspended there and nowhere else (the S3, video, dataset and trainer
\* calls are plain synchronous calls).
AwaitLabels ==
    {"update_0", "update_10", "update_20", "update_35", "update_50", "update_60",
     "update_85", "update_95", "get_job_version", "add_version",
     "update_completed", "get_job_webhook", "send_completion", "update_webhook",
     "except_update", "except_get_job", "except_webhook"}

\* The coroutine of worker w is not running: not invoked, ended, or
\* suspended at an await.
Suspended(w) == pc[w] \in {"idle", "ended"} \cup AwaitLabels

\* The event loop runs one coroutine at a time.
OthersSuspended(w) == \A v \in Workers \ {w} : Suspended(v)

\* The collaborators answer: no exception other than the frame gate's, a
\* video with frames enough for the dataset builder whatever it rejects, a
\* training that returned delivered a LoRA, and a webhook endpoint accepts
\* the first POST.
Answering(w) ==
    /\ excMsg[w] \in {None, FrameCountAttributeError, InsufficientGate}
    /\ raisedMsg[w] \in {None, FrameCountAttributeError, InsufficientGate}
    /\ videoResult[w] = NoVideo
          \/ /\ videoResult[w].error = None
             /\ videoResult[w].frames >= BuilderMinFrames + MaxRejected
    /\ trainingResult[w] = NoTraining \/ trainingResult[w].success
    /\ webhookResult[w].posts <= 1
    /\ failureNotice[w].posts <= 1

\* The event loop resumes coroutine w, which runs step A.
Resume(w, A) == OthersSuspended(w) /\ A /\ Answering(w)'

ConcurrentNext ==
    \E w \in Workers :
        \/ Resume(w, Start(w))
        \/ Resume(w, Update0(w))
        \/ Resume(w, MkDTemp(w))
        \/ Resume(w, Update10(w))
        \/ Resume(w, DownloadSource(w))
        \/ Resume(w, Update20(w))
        \/ Resume(w, ProcessVideoStep(w))
        \/ Resume(w, Update35(w))
        \/ Resume(w, BuildDatasetStep(w))
        \/ Resume(w, CheckFrames(w))
        \/ Resume(w, Update50(w))
        \/ Resume(w, UploadDirectory(w))
        \/ Resume(w, Update60(w))
        \/ Resume(w, TrainStep(w))
        \/ Resume(w, Update85(w))
        \/ Resume(w, DownloadLora(w))
        \/ Resume(w, Update95(w))
        \/ Resume(w, GetJobVersion(w))
        \/ Resume(w, UploadLora(w))
        \/ Resume(w, AddVersionStep(w))
        \/ Resume(w, UpdateCompleted(w))
        \/ Resume(w, BuildResult(w))
        \/ Resume(w, GetJobWebhook(w))
        \/ Resume(w, SendCompletion(w))
        \/ Resume(w, UpdateWebhook(w))
        \/ Resume(w, Return(w))
        \/ Resume(w, ExceptUpdate(w))
        \/ Resume(w, ExceptGetJob(w))
        \/ Resume(w, ExceptWebhook(w))
        \/ Resume(w, Reraise(w))
        \/ Resume(w, Finally(w))

SpecConcurrent == ConcurrentInit /\ [][ConcurrentNext]_vars

\* ------------------------------------------- the dataset builder on its own
\* Frame files are temp_dir/frames/<id>/frame_NNNN.jpg, NNNN the scene number
\* (video_processor.py:314).
FrameNumbers == 1..MaxFrameList
FramePath(n) == [stem |-> "frame", number |-> n]
Frame(n) == [scene_number |-> n, file_path |-> FramePath(n)]
\* Frame lists: any order, repeats included.
FrameLists == UNION {[1..k -> {Frame(n) : n \in FrameNumbers}] : k \in 0..MaxFrameList}

\* An image file: whether cv2.imread decodes it, its area in pixels, the
\* areas w * h of the faces the cascade finds in it, and the variance of its
\* Laplacian.
Image(decodes, size, faces, blur) == [decodes |-> decodes, size |-> size, faces |-> faces, blur |-> blur]
\* A FaceDetector: its thresholds (confidences in hundredths) and whether
\* the Haar cascade loaded (the constructor only warns when it did not).
Detector(min_face_confidence, blur_threshold, cascade) == [min_face_confidence |-> min_face_confidence, blur_threshold |-> blur_threshold, cascade |-> cascade]
\* FaceDetector.__init__ defaults: min_face_confidence 0.8, blur_threshold 100.0
DefaultDetector == Detector(80, 100, TRUE)

Max(set) == CHOOSE x \in set : \A y \in set : y <= x
Min(a, b) == IF a <= b THEN a ELSE b
\* FaceDetector.detect_faces: confidence = min(1.0, max_size / image_size * 10),
\* in hundredths.
detect_faces(image) ==
    IF Len(image.faces) = 0 THEN [face_count |-> 0, face_confidence |-> 0]
    ELSE LET max_size == Max({image.faces[i] : i \in DOMAIN image.faces})
         IN  [face_count |-> Len(image.faces),
              face_confidence |-> Min(100, (max_size * 1000) \div image.size)]
\* FaceDetector.detect_blur
detect_blur(image) == image.blur

NoImageQuality ==
    [has_face |-> FALSE, face_count |-> 0, face_confidence |-> 0, blur_score |-> 0,
     is_acceptable |-> FALSE, none |-> TRUE]
\* An assessment that leaves the sharpness out of the decision.
AcceptBlurred(detector, image) ==
    IF ~image.decodes \/ ~detector.cascade THEN NoImageQuality
    ELSE LET found == detect_faces(image)
         IN  [has_face |-> found.face_count > 0, face_count |-> found.face_count,
              face_confidence |-> found.face_confidence,
              blur_score |-> detect_blur(image),
              is_acceptable |-> /\ found.face_count > 0
                                /\ found.face_confidence >= detector.min_face_confidence,
              none |-> FALSE]
\* FaceDetector.assess_quality on the image read from image_path, lines
\* 116-151: None when the image does not decode or anything raises
\* (detectMultiScale on a cascade that did not load).
ImageQuality(detector, image) ==
    IF ~image.decodes \/ ~detector.cascade THEN NoImageQuality
    ELSE LET found == detect_faces(image)
             has_face == found.face_count > 0
             blur_score == detect_blur(image)
         IN  [has_face |-> has_face, face_count |-> found.face_count,
              face_confidence |-> found.face_confidence, blur_score |-> blur_score,
              is_acceptable |-> /\ has_face
                                /\ found.face_confidence >= detector.min_face_confidence
                                /\ blur_score >= detector.blur_threshold,
              none |-> FALSE]

\* What the image file of each frame number is: one cv2 cannot read, one that
\* passes the face and blur thresholds, one that does not.
Unreadable == Image(FALSE, 100, <<>>, 0)
SharpFace == Image(TRUE, 100, <<10>>, 150)
NoFace == Image(TRUE, 100, <<>>, 150)
ImageKinds == {Unreadable, SharpFace, NoFace}
ImageFiles == [FrameNumbers -> ImageKinds]
AllAcceptable == [n \in FrameNumbers |-> SharpFace]

\* FaceDetector.assess_quality with the default thresholds: None (NoQuality)
\* for an image that cannot be read (line 119), else the ImageQuality measured
\* on that file.
NoQuality == [is_acceptable |-> FALSE, measured_on |-> 0]
assess_quality(images, image_path) ==
    IF ~images[image_path.number].decodes THEN NoQuality
    ELSE [is_acceptable |->
              ImageQuality(DefaultDetector, images[image_path.number]).is_acceptable,
          measured_on |-> image_path.number]

\* A filter that hands the accepted paths back last-first.
RECURSIVE Reversed(_)
Reversed(seq) == IF seq = <<>> THEN <<>> ELSE Append(Reversed(Tail(seq)), Head(seq))
AcceptedLastFirst(images, frame_paths) ==
    LET good(path) == /\ assess_quality(images, path) # NoQuality
                      /\ assess_quality(images, path).is_acceptable
        seen(path) == assess_quality(images, path) # NoQuality
    IN  [accepted |-> Reversed(SelectSeq(frame_paths, good)),
         qualities |-> [i \in DOMAIN SelectSeq(frame_paths, seen) |->
                           assess_quality(images, SelectSeq(frame_paths, seen)[i])]]

\* FaceDetector.filter_quality_frames, the loop of lines 173-200.
RECURSIVE FilterLoop(_, _, _, _, _)
FilterLoop(images, frame_paths, i, accepted, qualities) ==
    IF i > Len(frame_paths) THEN [accepted |-> accepted, qualities |-> qualities]
    ELSE LET quality == assess_quality(images, frame_paths[i])
         IN  IF quality = NoQuality
             THEN FilterLoop(images, frame_paths, i + 1, accepted, qualities)
             ELSE FilterLoop(images, frame_paths, i + 1,
                             IF quality.is_acceptable
                             THEN Append(accepted, frame_paths[i]) ELSE accepted,
                             Append(qualities, quality))
filter_quality_frames(images, frame_paths) ==
    FilterLoop(images, frame_paths, 1, <<>>, <<>>)

\* DatasetBuilder.filter_frames: the frames whose file_path is in the
\* accepted paths.
filter_frames(images, frames) ==
    LET r == filter_quality_frames(images, [i \in DOMAIN frames |-> frames[i].file_path])
        in_accepted(frame) == \E k \in DOMAIN r.accepted : r.accepted[k] = frame.file_path
    IN  [frames |-> SelectSeq(frames, in_accepted), qualities |-> r.qualities]

\* CaptionGenerator: the variation templates and the default template.
VariationTemplates ==
    <<"a portrait of {trigger}", "a photo of {trigger}", "{trigger} looking at camera",
      "a professional photo of {trigger}", "a headshot of {trigger}">>
DefaultTemplate == "a portrait of {trigger}"
\* template.format(trigger=...)
Format(template, trigger) == [template |-> template, trigger |-> trigger]
\* generate_caption: idx is the number at the end of the file's stem.
generate_caption(image_path, use_variations, trigger) ==
    IF use_variations
    THEN Format(VariationTemplates[(image_path.number % Len(VariationTemplates)) + 1],
                trigger)
    ELSE Format(DefaultTemplate, trigger)

\* The bundle directory output_dir/<dataset_name>: images/NNNN.jpg,
\* captions/NNNN.txt, metadata.json.
File(name, content) == [name |-> name, content |-> content]
WriteFile(files, name, content) ==
    {f \in files : f.name # name} \cup {File(name, content)}
\* The bundle an earlier build of `count` images under the same name left.
EarlierBundle(count) ==
    [images |-> {File(i, [stem |-> "earlier", number |-> i]) : i \in 1..count},
     captions |-> {File(i, Format("earlier", "earlier")) : i \in 1..count},
     metadata |-> IF count = 0 THEN None ELSE [image_count |-> count, frames |-> <<>>]]

\* A truncation that keeps the last max_frames frames.
KeepLast(frames, max_frames) ==
    IF Len(frames) > max_frames
    THEN SubSeq(frames, Len(frames) - max_frames + 1, Len(frames)) ELSE frames

\* line 144-147: frames[:self.max_frames]
Truncate(frames, max_frames) ==
    IF Len(frames) > max_frames THEN SubSeq(frames, 1, max_frames) ELSE frames

\* line 165-178: copy each image and write its caption; shutil.copy2 raises
\* at position copyFailsAt (0: it never does).
RECURSIVE CopyLoop(_, _, _, _, _, _)
CopyLoop(frames, i, bundle, trigger, use_variations, copyFailsAt) ==
    IF i > Len(frames) THEN [raise |-> None, bundle |-> bundle]
    ELSE IF i = copyFailsAt THEN [raise |-> "copy failed", bundle |-> bundle]
    ELSE CopyLoop(frames, i + 1,
                  [bundle EXCEPT
                      !.images = WriteFile(@, i, frames[i].file_path),
                      !.captions = WriteFile(@, i,
                          generate_caption(frames[i].file_path, use_variations, trigger))],
                  trigger, use_variations, copyFailsAt)

\* metadata without the quality_stats key.
NoStats == [total_assessed |-> 0, accepted |-> 0, rejected |-> 0, absent |-> TRUE]

\* DatasetBuilder.build_dataset.  Every exception, its own DatasetBuildError
\* included, leaves through line 228-230 as a DatasetBuildError.
build_dataset(b, frames, images, trigger, use_variations, filter_quality, bundle, copyFailsAt) ==
    LET filtered == IF filter_quality THEN filter_frames(images, frames).frames
                    ELSE frames
        qualities == IF filter_quality THEN filter_frames(images, frames).qualities
                     ELSE <<>>
    IN  IF Len(filtered) < b.min_frames
        THEN [raise |-> "DatasetBuildError", cause |-> "Insufficient frames", ret |-> None,
              bundle |-> bundle, filtered |-> filtered]
        ELSE LET kept == Truncate(filtered, b.max_frames)
                 loop == CopyLoop(kept, 1, bundle, trigger, use_variations, copyFailsAt)
             IN  IF loop.raise # None
                 THEN [raise |-> "DatasetBuildError", cause |-> loop.raise, ret |-> None,
                       bundle |-> loop.bundle, filtered |-> filtered]
                 ELSE LET metadata ==
                            [image_count |-> Len(kept),
                             frames |-> [i \in DOMAIN kept |-> kept[i].scene_number],
                             \* lines 198-205: if qualities:
                             quality_stats |->
                                 IF qualities # <<>>
                                 THEN [total_assessed |-> Len(qualities),
                                       accepted |-> Len(kept),
                                       rejected |-> Len(qualities) - Len(kept)]
                                 ELSE NoStats]
                      IN  [raise |-> None, cause |-> None,
                           ret |-> [image_count |-> Len(kept), trigger_phrase |-> trigger,
                                    metadata |-> metadata],
                           bundle |-> [loop.bundle EXCEPT !.metadata = metadata],
                           filtered |-> filtered]

\* The (min_frames, max_frames) pairs a DatasetBuilder is constructed with;
\* the constructor checks nothing, max_frames below min_frames included.
BuilderConfigs == [min_frames : 1..2, max_frames : 1..MaxFrameList]

\* No invocation of the pipeline and no webhook call: a component is called
\* on its own.
PipelineIdle ==
    /\ InitStoreAs(<<None, "lora-training">>)
    /\ writers = {}
    /\ args = [w \in Workers |-> [job_id |-> 1, lora_name |-> "avatar"]]
    /\ hook = HookIdle

DatasetInit ==
    /\ PipelineIdle
    /\ \/ \E b \in BuilderConfigs, frames \in FrameLists, images \in ImageFiles,
             use_variations \in BOOLEAN, filter_quality \in BOOLEAN,
             earlier \in {0, MaxFrameList}, copyFailsAt \in {0, 1} :
            /\ filter_quality \/ images = AllAcceptable
            /\ unit = [op |-> "build_dataset", pc |-> "call", builder |-> b,
                       frames |-> frames, images |-> images, trigger |-> "person",
                       use_variations |-> use_variations,
                       filter_quality |-> filter_quality,
                       before |-> EarlierBundle(earlier), copyFailsAt |-> copyFailsAt]
       \/ \E frames \in FrameLists, images \in ImageFiles :
            unit = [op |-> "filter_frames", pc |-> "call", frames |-> frames,
                    images |-> images]

\* builder.build_dataset(frames, dataset_name, trigger_phrase, ...)
BuildDatasetCall ==
    /\ unit.op = "build_dataset" /\ unit.pc = "call"
    /\ LET o == build_dataset(unit.builder, unit.frames, unit.images, unit.trigger,
                              unit.use_variations, unit.filter_quality, unit.before,
                              unit.copyFailsAt)
       IN  unit' = [op |-> "build_dataset",
                    pc |-> IF o.raise = None THEN "returned" ELSE "raised",
                    builder |-> unit.builder, frames |-> unit.frames,
                    images |-> unit.images, trigger |-> unit.trigger,
                    use_variations |-> unit.use_variations,
                    filter_quality |-> unit.filter_quality,
                    before |-> unit.before, copyFailsAt |-> unit.copyFailsAt,
                    raise |-> o.raise, cause |-> o.cause, ret |-> o.ret, bundle |-> o.bundle,
                    filtered |-> o.filtered]
    /\ UNCHANGED <<pipelineVars, hook>>

\* builder.filter_frames(frames), and the detector's filter_quality_frames
\* it calls on the frames' paths.
FilterFramesCall ==
    /\ unit.op = "filter_frames" /\ unit.pc = "call"
    /\ unit' = [op |-> "filter_frames", pc |-> "returned", frames |-> unit.frames,
                images |-> unit.images,
                paths |-> [i \in DOMAIN unit.frames |-> unit.frames[i].file_path],
                ret |-> filter_frames(unit.images, unit.frames),
                detector |-> filter_quality_frames(unit.images,
                                [i \in DOMAIN unit.frames |-> unit.frames[i].file_path])]
    /\ UNCHANGED <<pipelineVars, hook>>

DatasetNext == BuildDatasetCall \/ FilterFramesCall

SpecDataset == DatasetInit /\ [][DatasetNext]_vars

\* ------------------------------------------- the video processor on its own
\* Times are Python floats (IEEE 754 binary64).  A time is held exactly, as
\* the number of 2^-56 seconds it is, in three limbs: hi * 2^40 + mid * 2^20
\* + lo.  Every double from 2^-3 up to 2^8 seconds is such a number.
Limb == 2 ^ 20
Fixed(hi, mid, lo) == <<hi, mid, lo>>
Zero == Fixed(0, 0, 0)
\* The doubles nearest to these decimal numbers of seconds.
Seconds0_1 == Fixed(6553, 629145, 629146)
Seconds0_3 == Fixed(19660, 838860, 838860)
Seconds0_5 == Fixed(32768, 0, 0)
Seconds0_8 == Fixed(52428, 838860, 838864)
Seconds0_9 == Fixed(58982, 419430, 419432)
Seconds1 == Fixed(65536, 0, 0)
Seconds3 == Fixed(196608, 0, 0)
Seconds9 == Fixed(589824, 0, 0)
Seconds10 == Fixed(655360, 0, 0)
Seconds30 == Fixed(1966080, 0, 0)
Seconds40 == Fixed(2621440, 0, 0)
Seconds45 == Fixed(2949120, 0, 0)

\* a < b
Less(a, b) ==
    \/ a[1] < b[1]
    \/ a[1] = b[1] /\ a[2] < b[2]
    \/ a[1] = b[1] /\ a[2] = b[2] /\ a[3] < b[3]
\* The exact sum.
ExactSum(a, b) ==
    LET lo == a[3] + b[3]
        mid == a[2] + b[2] + (lo \div Limb)
    IN  <<a[1] + b[1] + (mid \div Limb), mid % Limb, lo % Limb>>
\* Number of binary digits of n.
BitLength(n) == CHOOSE k \in 0..30 : n < 2 ^ k /\ (k = 0 \/ n >= 2 ^ (k - 1))
\* A double has 53 significant binary digits.
MantissaBits == 53
\* The double nearest to a, ties to the even mantissa.  For a time of at
\* least 2^-16 seconds the digits dropped are low digits of the lo limb.
RoundToDouble(a) ==
    LET drop == 40 + BitLength(a[1]) - MantissaBits
    IN  IF a[1] = 0 \/ drop <= 0 THEN a
        ELSE LET rem == a[3] % (2 ^ drop)
                 kept == <<a[1], a[2], a[3] - rem>>
                 half == 2 ^ (drop - 1)
                 odd == (a[3] \div (2 ^ drop)) % 2 = 1
             IN  IF rem > half \/ (rem = half /\ odd)
                 THEN ExactSum(kept, <<0, 0, 2 ^ drop>>) ELSE kept
\* Python's a + b on floats.
FloatAdd(a, b) == RoundToDouble(ExactSum(a, b))
\* a / 2: exact on a double.
Halve(a) ==
    <<a[1] \div 2, (a[2] + (a[1] % 2) * Limb) \div 2, (a[3] + (a[2] % 2) * Limb) \div 2>>

\* What ffprobe printed for format=duration: a number, or text float() rejects.
Printed(duration) == [parses |-> TRUE, value |-> duration]
NotANumber == [parses |-> FALSE, value |-> Zero]
\* _get_video_duration: float(stdout), or 30.0 when that raises ValueError.
get_video_duration(stdout) == IF stdout.parses THEN stdout.value ELSE Seconds30

Segment(start_time, end_time) == [start |-> start_time, end |-> end_time]

\* detect_scenes, lines 207-220, on the pts_time values parsed from ffmpeg
\* and the duration.
detect_scenes(scene_times, duration) ==
    IF scene_times = <<>> THEN <<Segment(Zero, duration)>>
    ELSE [i \in 1..(Len(scene_times) + 1) |->
             Segment(IF i = 1 THEN Zero ELSE scene_times[i - 1],
                     IF i <= Len(scene_times) THEN scene_times[i] ELSE duration)]

\* line 252: end_time = min(current_time + interval_seconds, duration)
EndTime(duration, interval_seconds, current_time) ==
    LET sum == FloatAdd(current_time, interval_seconds)
    IN  IF Less(duration, sum) THEN duration ELSE sum
\* extract_intervals, the loop of lines 251-254.
RECURSIVE IntervalLoop(_, _, _, _)
IntervalLoop(duration, interval_seconds, current_time, intervals) ==
    IF ~Less(current_time, duration) THEN intervals
    ELSE LET end_time == EndTime(duration, interval_seconds, current_time)
         IN  IntervalLoop(duration, interval_seconds, end_time,
                          Append(intervals, Segment(current_time, end_time)))
extract_intervals(duration, interval_seconds) ==
    IntervalLoop(duration, interval_seconds, Zero, <<>>)

\* line 313: midpoint = (start_time + end_time) / 2
Midpoint(scene) == Halve(FloatAdd(scene.start, scene.end))
\* What one run of ffmpeg for a frame does: it ends with a return code and
\* the output file written or not, runs into the 30 s timeout, or cannot be
\* started at all.
Sample(raises, returncode, exists) == [raises |-> raises, returncode |-> returncode, exists |-> exists]
Samples ==
    {Sample(None, 0, TRUE), Sample(None, 1, FALSE), Sample(None, 0, FALSE),
     Sample("TimeoutExpired", 0, FALSE), Sample("OSError", 0, FALSE)}
\* _extract_single_frame, lines 360-369: False after a timeout.
extract_single_frame(sample) ==
    IF sample.raises = "TimeoutExpired" THEN FALSE
    ELSE sample.returncode = 0 /\ sample.exists

\* The loop of extract_frames, lines 312-337, from scene i on.  tried lists
\* the scenes _extract_single_frame was called for, attempts the timestamps.
RECURSIVE ExtractLoop(_, _, _, _)
ExtractLoop(scenes, samples, i, acc) ==
    IF i > Len(scenes) THEN acc
    ELSE LET called == [acc EXCEPT !.attempts = Append(@, Midpoint(scenes[i])),
                                   !.tried = Append(@, i)]
         IN  IF samples[i].raises = "OSError"
             THEN [called EXCEPT !.raise = "VideoProcessingError"]
             ELSE IF extract_single_frame(samples[i])
             THEN ExtractLoop(scenes, samples, i + 1,
                              [called EXCEPT !.frames = Append(@, Frame(i))])
             ELSE ExtractLoop(scenes, samples, i + 1, called)

\* Frames numbered by their place in the returned list.
RenumberedFrames(scenes, samples) ==
    LET out == ExtractLoop(scenes, samples, 1,
                           [raise |-> None, attempts |-> <<>>, tried |-> <<>>,
                            frames |-> <<>>])
    IN  [out EXCEPT !.frames = [k \in DOMAIN out.frames |-> Frame(k)]]

\* extract_frames: one _extract_single_frame per scene, a Frame for each
\* that returned True; any exception becomes VideoProcessingError (line 339).
extract_frames(scenes, samples) ==
    ExtractLoop(scenes, samples, 1,
                [raise |-> None, attempts |-> <<>>, tried |-> <<>>, frames |-> <<>>])

\* n * a, exactly.
RECURSIVE Times(_, _)
Times(n, a) == IF n = 0 THEN Zero ELSE ExactSum(a, Times(n - 1, a))

\* The cut timestamps ffmpeg may print for a video, in increasing order.
CutLists(duration) ==
    LET upTo(t) == IF Less(duration, t) THEN {} ELSE {<<t>>}
        pick(t) == {<<>>} \cup upTo(t)
    IN  {a \o b \o c : a \in pick(Seconds3), b \in pick(Seconds9), c \in pick(Seconds40)}

VideoInit ==
    /\ PipelineIdle
    /\ \/ \E duration \in {Seconds9, Seconds45},
             stdout \in {Printed(Seconds9), Printed(Seconds45), NotANumber},
             samples \in [1..MaxScenes -> Samples] :
            /\ stdout.parses => stdout.value = duration
            /\ \E scene_times \in CutLists(duration) :
                  unit = [op |-> "detect_scenes", pc |-> "call", stdout |-> stdout,
                          scene_times |-> scene_times, samples |-> samples]
       \/ \E duration \in {Seconds0_8, Seconds0_9, Seconds1, Seconds9, Seconds10},
             interval_seconds \in {Seconds0_1, Seconds0_3, Seconds0_5, Seconds3},
             stdout \in {Printed(Seconds0_8), Printed(Seconds0_9), Printed(Seconds1),
                         Printed(Seconds9), Printed(Seconds10), NotANumber} :
            /\ stdout.parses => stdout.value = duration
            /\ ~Less(Times(MaxWindows, interval_seconds), get_video_duration(stdout))
            /\ unit = [op |-> "extract_intervals", pc |-> "call", stdout |-> stdout,
                       interval_seconds |-> interval_seconds]

\* scenes = self.detect_scenes(video_path)
DetectScenesCall ==
    /\ unit.op = "detect_scenes" /\ unit.pc = "call"
    /\ unit' = [op |-> "detect_scenes", pc |-> "scenes", stdout |-> unit.stdout,
                scene_times |-> unit.scene_times, samples |-> unit.samples,
                scenes |-> detect_scenes(unit.scene_times,
                                         get_video_duration(unit.stdout))]
    /\ UNCHANGED <<pipelineVars, hook>>

\* frames = self.extract_frames(video_path, scenes, frames_dir)
ExtractFramesCall ==
    /\ unit.op = "detect_scenes" /\ unit.pc = "scenes"
    /\ unit' = [op |-> "detect_scenes", pc |-> "returned", stdout |-> unit.stdout,
                scene_times |-> unit.scene_times, samples |-> unit.samples,
                scenes |-> unit.scenes,
                ret |-> extract_frames(unit.scenes, unit.samples)]
    /\ UNCHANGED <<pipelineVars, hook>>

\* scenes = self.extract_intervals(video_path, self.interval_seconds)
ExtractIntervalsCall ==
    /\ unit.op = "extract_intervals" /\ unit.pc = "call"
    /\ unit' = [op |-> "extract_intervals", pc |-> "returned", stdout |-> unit.stdout,
                interval_seconds |-> unit.interval_seconds,
                ret |-> extract_intervals(get_video_duration(unit.stdout),
                                          unit.interval_seconds)]
    /\ UNCHANGED <<pipelineVars, hook>>

VideoNext == DetectScenesCall \/ ExtractFramesCall \/ ExtractIntervalsCall

SpecVideo == VideoInit /\ [][VideoNext]_vars

\* ------------------------------------- extract_intervals, one iteration a step
\* The constructor stores interval_seconds as given, 0 included (line 63).
IntervalsInit ==
    /\ PipelineIdle
    /\ \E duration \in {Zero, Seconds0_8, Seconds0_9, Seconds1, Seconds9, Seconds10},
          interval_seconds \in {Zero, Seconds0_1, Seconds0_3, Seconds0_5, Seconds3} :
          /\ interval_seconds # Zero =>
                ~Less(Times(MaxWindows, interval_seconds), duration)
          /\ unit = [op |-> "intervals", pc |-> "call", stdout |-> Printed(duration),
                     interval_seconds |-> interval_seconds, duration |-> Zero,
                     current_time |-> Zero, intervals |-> <<>>, more |-> 0]

\* lines 245-249: duration = self._get_video_duration(video_path);
\* intervals = []; current_time = 0.0
IntervalsEnter ==
    /\ unit.op = "intervals" /\ unit.pc = "call"
    /\ unit' = [unit EXCEPT !.pc = "loop", !.duration = get_video_duration(unit.stdout)]
    /\ UNCHANGED <<pipelineVars, hook>>

\* lines 251-254, one iteration.  Of the list the first MaxWindows windows
\* are kept, and of the number of windows after them whether it is odd.
IntervalsIterate ==
    /\ unit.op = "intervals" /\ unit.pc = "loop"
    /\ Less(unit.current_time, unit.duration)
    /\ LET end_time == EndTime(unit.duration, unit.interval_seconds, unit.current_time)
       IN  unit' = [unit EXCEPT
                       !.intervals = IF Len(@) < MaxWindows
                                     THEN Append(@, Segment(unit.current_time, end_time))
                                     ELSE @,
                       !.more = IF Len(unit.intervals) < MaxWindows THEN @ ELSE 1 - @,
                       !.current_time = end_time]
    /\ UNCHANGED <<pipelineVars, hook>>

\* line 257: return intervals
IntervalsReturn ==
    /\ unit.op = "intervals" /\ unit.pc = "loop"
    /\ ~Less(unit.current_time, unit.duration)
    /\ unit' = [unit EXCEPT !.pc = "returned"]
    /\ UNCHANGED <<pipelineVars, hook>>

IntervalsNext == IntervalsEnter \/ IntervalsIterate \/ IntervalsReturn

\* The interpreter keeps running the call.
SpecIntervals == IntervalsInit /\ [][IntervalsNext]_vars /\ WF_vars(IntervalsNext)

\* ------------------------------------------- the training provider on its own
\* The dataset directory as validate_dataset sees it: present or not, with an
\* images directory or not, holding that many .jpg / .png files.
DatasetDirs ==
    {[exists |-> FALSE, images_dir |-> FALSE, images |-> 0],
     [exists |-> TRUE, images_dir |-> FALSE, images |-> 0],
     [exists |-> TRUE, images_dir |-> TRUE, images |-> 0],
     [exists |-> TRUE, images_dir |-> TRUE, images |-> 2]}
\* TrainingProvider.validate_dataset
validate_dataset(dataset_path) ==
    dataset_path.exists /\ dataset_path.images_dir /\ dataset_path.images > 0

\* What upload_file(zip_path) of fal_client does: returns the URL, or raises
\* with a message, which may be empty.
Returns(value) == [raises |-> FALSE, msg |-> None, value |-> value]
Raises(msg) == [raises |-> TRUE, msg |-> msg, value |-> None]
ArchiveUploads == {Returns("https://fal/dataset.zip"), Raises("fal.ai upload failed"),
                   Raises("")}

\* The value of result["data"]: a dict, in which diffusers_lora_file is
\* absent, null, a dict without url or a dict with url, or something that is
\* not a dict.
ResultData(type, lora_file) == [type |-> type, lora_file |-> lora_file]
CompleteResult == ResultData("dict", "dict with url")
ProviderResults ==
    {CompleteResult, ResultData("dict", "absent"), ResultData("dict", "null"),
     ResultData("dict", "dict without url"), ResultData("str", "absent")}
\* What fal_client.subscribe does: returns a result, or raises.
RemoteTrainings ==
    {Returns(r) : r \in ProviderResults} \cup {Raises(ProviderError), Raises("")}

DataAttributeError == "'str' object has no attribute 'get'"
NullAttributeError == "'NoneType' object has no attribute 'get'"
\* line 173: result_data.get("diffusers_lora_file", {}).get("url")
LoraUrlOf(result_data) ==
    IF result_data.type # "dict" THEN Raises(DataAttributeError)
    ELSE IF result_data.lora_file = "null" THEN Raises(NullAttributeError)
    ELSE IF result_data.lora_file = "dict with url" THEN Returns("https://fal/lora")
    ELSE Returns(None)

\* FalAIProvider.train, lines 112-204.
train(dataset_path, upload, remote) ==
    IF ~validate_dataset(dataset_path)
    THEN [ret |-> TrainFailure("Dataset validation failed"), zip |-> FALSE]
    ELSE IF upload.raises
    THEN [ret |-> TrainFailure(upload.msg), zip |-> TRUE]
    ELSE IF remote.raises
    THEN [ret |-> TrainFailure(remote.msg), zip |-> FALSE]
    ELSE LET lora_url == LoraUrlOf(remote.value)
         IN  IF lora_url.raises
             THEN [ret |-> TrainFailure(lora_url.msg), zip |-> FALSE]
             ELSE [ret |-> [success |-> TRUE, lora_url |-> lora_url.value,
                            error |-> None],
                   zip |-> FALSE]

ProviderInit ==
    /\ PipelineIdle
    /\ \E dataset_path \in DatasetDirs, upload \in ArchiveUploads,
          remote \in RemoteTrainings :
          unit = [op |-> "train", pc |-> "call", dataset_path |-> dataset_path,
                  upload |-> upload, remote |-> remote]

\* training_result = provider.train(dataset_path, config, dataset_name);
\* no exception leaves train (line 194).
TrainCall ==
    /\ unit.op = "train" /\ unit.pc = "call"
    /\ unit' = [op |-> "train", pc |-> "returned", dataset_path |-> unit.dataset_path,
                upload |-> unit.upload, remote |-> unit.remote,
                out |-> train(unit.dataset_path, unit.upload, unit.remote)]
    /\ UNCHANGED <<pipelineVars, hook>>

ProviderNext == TrainCall

SpecProvider == ProviderInit /\ [][ProviderNext]_vars

\* ----------------------------------------------- the face detector on its own
\* Images of 100 pixels with up to two faces of 2, 8 or 30 pixels.
FaceSizes == {2, 8, 30}
Images ==
    {Image(decodes, 100, faces, blur) :
        decodes \in BOOLEAN,
        faces \in {<<>>} \cup {<<a>> : a \in FaceSizes}
                         \cup {<<a, b>> : a \in FaceSizes, b \in FaceSizes},
        blur \in {50, 100, 150}}
Detectors ==
    {Detector(min_face_confidence, blur_threshold, cascade) :
        min_face_confidence \in {0, 50, 80, 100}, blur_threshold \in {0, 100},
        cascade \in BOOLEAN}

DetectorInit ==
    /\ PipelineIdle
    /\ \E detector \in Detectors, image \in Images :
          unit = [op |-> "assess_quality", pc |-> "call", detector |-> detector,
                  image |-> image]

\* quality = self.assess_quality(frame_path)
AssessQualityCall ==
    /\ unit.op = "assess_quality" /\ unit.pc = "call"
    /\ unit' = [op |-> "assess_quality", pc |-> "returned", detector |-> unit.detector,
                image |-> unit.image,
                quality |-> ImageQuality(unit.detector, unit.image)]
    /\ UNCHANGED <<pipelineVars, hook>>

DetectorNext == AssessQualityCall

SpecDetector == DetectorInit /\ [][DetectorNext]_vars

\* -------------------------------------------------- the job store on its own
\* Everything but the job store and the component under call.
storeIdle == <<fs, blobs, writers, runs, pc, builder, tempJobDir, videoResult,
               survivors, dataset, trainingResult, loraSize, jobRead, version,
               webhookResult, excMsg, failedAt, raisedMsg, outcome, result, sent,
               calls, args, datasetWriter, failureNotice, hook>>

\* The version_data documents callers pass: with or without sizeBytes.
VersionDatas == [version : {1}, sizeBytes : 1..(MaxLoraSize + 1)] \cup [version : {1}]
\* The arguments of update_job_status, as the pipeline passes them.
StatusUpdate(status, progress, error) == [status |-> status, progress |-> progress, error |-> error]
StatusUpdates ==
    {StatusUpdate("processing", 0, None), StatusUpdate("processing", 50, None),
     StatusUpdate("completed", NoProgress, None), StatusUpdate("failed", NoProgress, "boom")}

StoreInit ==
    /\ InitStoreAs(<<None, "lora-training">>)
    /\ writers = {}
    /\ args = [w \in Workers |-> [job_id |-> 1, lora_name |-> "avatar"]]
    /\ hook = HookIdle
    /\ unit = [op |-> "store", pc |-> "ready", made |-> 0, last |-> "none", job_id |-> 0]

\* The call on the store is counted; job_id 0 is the id of no Job.
Made(name, job_id) ==
    /\ unit.op = "store" /\ unit.made < MaxStoreCalls
    /\ unit' = [unit EXCEPT !.made = @ + 1, !.last = name, !.job_id = job_id]
    /\ UNCHANGED storeIdle
\* update_one({"jobId": job_id}, ...) on a Job of the store: the update is
\* applied, or the call raises and nothing is.
UpdateOne(job_id, rec) ==
    \/ /\ jobs' = [jobs EXCEPT ![job_id] = rec]
       /\ progressLowered' = [progressLowered EXCEPT ![job_id] =
                                 @ \/ rec.progress < jobs[job_id].progress]
    \/ UNCHANGED <<jobs, progressLowered>>

\* await db.add_version(job_id, version_data); an id that matches no Job
\* updates nothing.
AddVersionCall ==
    \E job_id \in JobIds \cup {0}, version_data \in VersionDatas :
        /\ Made("add_version", job_id)
        /\ IF job_id \in JobIds
           THEN UpdateOne(job_id, AddVersion(jobs[job_id], version_data))
           ELSE UNCHANGED <<jobs, progressLowered>>

\* await db.update_job_status(job_id, status, progress, error)
UpdateJobStatusCall ==
    \E job_id \in JobIds \cup {0}, u \in StatusUpdates :
        /\ Made("update_job_status", job_id)
        /\ IF job_id \in JobIds
           THEN UpdateOne(job_id, UpdateJobStatus(jobs[job_id], u.status, u.progress,
                                                  u.error))
           ELSE UNCHANGED <<jobs, progressLowered>>

StoreNext == AddVersionCall \/ UpdateJobStatusCall

SpecStore == StoreInit /\ [][StoreNext]_vars

\* ------------------------------------------------------------ observers
Ended(w) == pc[w] = "ended"
Called(w, op, arg) == \E i \in DOMAIN calls[w] : calls[w][i].op = op /\ calls[w][i].arg = arg
CountCalls(w, op) == Cardinality({i \in DOMAIN calls[w] : calls[w][i].op = op})
\* Position of the first call (op, arg) of the run; 0 when there is none.
FirstCall(w, op, arg) ==
    IF Called(w, op, arg)
    THEN CHOOSE i \in DOMAIN calls[w] :
            /\ calls[w][i].op = op /\ calls[w][i].arg = arg
            /\ \A k \in 1..(i - 1) : ~(calls[w][k].op = op /\ calls[w][k].arg = arg)
    ELSE 0
IsStatusCall(c) == c.op = "update_job_status"
StatusCalls(w) == SelectSeq(calls[w], IsStatusCall)
HasProgress(c) == c.op = "update_job_status" /\ c.progress # NoProgress
\* The progress values sent to the job store by the run, in order.
Checkpoints(w) ==
    LET cs == SelectSeq(calls[w], HasProgress)
    IN  [i \in DOMAIN cs |-> cs[i].progress]
\* Position of the status call carrying progress p; 0 when there is none.
CheckpointAt(w, p) ==
    IF \E i \in DOMAIN calls[w] : HasProgress(calls[w][i]) /\ calls[w][i].progress = p
    THEN CHOOSE i \in DOMAIN calls[w] : HasProgress(calls[w][i]) /\ calls[w][i].progress = p
    ELSE 0
\* A job-store call of the run raised.
StoreFailed(w) == excMsg[w] = DbError \/ raisedMsg[w] = DbError
\* The run has ended and none of the collaborators it called failed: no call
\* raised, extraction and training reported success, the dataset has at least
\* min_frames images.
EveryCollaboratorSucceeded(w) ==
    /\ Ended(w)
    /\ failedAt[w] \in {None, "check_frames"}
    /\ ~StoreFailed(w)
    /\ videoResult[w].success
    /\ survivors[w] >= BuilderMinFrames
    /\ Called(w, "train", "") =>
          trainingResult[w].success /\ trainingResult[w].lora_url # None

\* ---------------------------------------------------------------- claims
\* C1: in a run in which every stage succeeds the progress values persisted
\* are exactly 0, 10, 20, 35, 50, 60, 85, 95, 100 in that order, every
\* checkpoint below 100 carries status 'processing', and each checkpoint is
\* persisted before the work of its stage starts (100 only after the Version
\* has been appended).
C1_CheckpointSequence ==
    \A w \in Workers :
        EveryCollaboratorSucceeded(w) =>
            /\ Checkpoints(w) = <<0, 10, 20, 35, 50, 60, 85, 95, 100>>
            /\ \A i \in DOMAIN calls[w] :
                  HasProgress(calls[w][i]) /\ calls[w][i].progress < 100
                      => calls[w][i].arg = "processing"
            /\ CheckpointAt(w, 10) < FirstCall(w, "download_from_url", "source")
            /\ CheckpointAt(w, 20) < FirstCall(w, "process_video", "")
            /\ CheckpointAt(w, 35) < FirstCall(w, "build_dataset", "")
            /\ CheckpointAt(w, 50) < FirstCall(w, "upload_directory", "")
            /\ CheckpointAt(w, 60) < FirstCall(w, "train", "")
            /\ CheckpointAt(w, 85) < FirstCall(w, "download_from_url", "artifact")
            /\ CheckpointAt(w, 95) < FirstCall(w, "get_job", "version")
            /\ CheckpointAt(w, 95) < FirstCall(w, "upload_file", "artifact")
            /\ FirstCall(w, "add_version", "") < CheckpointAt(w, 100)

\* C2: a run in which every collaborator succeeds ends with the Job
\* 'completed' at progress 100, calls train exactly once, appends exactly one
\* Version and returns a result carrying modelUrl, s3Key, sizeBytes, version.
C2_SuccessfulRunCompletes ==
    \A w \in Workers :
        EveryCollaboratorSucceeded(w) =>
            /\ outcome[w] = "returned"
            /\ job.status = "completed"
            /\ job.progress = 100
            /\ CountCalls(w, "train") = 1
            /\ CountCalls(w, "add_version") = 1
            /\ Len(job.versions) = result[w].version
            /\ result[w].modelUrl # None
            /\ result[w].sizeBytes = loraSize[w]
            /\ result[w].s3Key = BlobKey("lora", args[w].job_id, result[w].version)

\* C3: under single-writer execution no step lowers the progress persisted
\* on the Job, across the failure path and across repeated invocations of
\* process_training_job on the same Job.
C3_ProgressNeverDecreases == [][job'.progress >= job.progress]_vars

\* C4: once the Job's status is 'completed' or 'failed', no later job-store
\* update changes it: neither the steps after the completion update of the
\* same run, nor a later invocation on the same Job.
C4_TerminalStatusFinal ==
    [][job.status \in {"completed", "failed"} => job'.status = job.status]_vars

\* The labels of the progress checkpoints.
CheckpointLabels ==
    {"update_0", "update_10", "update_20", "update_35", "update_50", "update_60",
     "update_85", "update_95", "update_completed"}
\* The progress values the run has persisted: the checkpoint that raised was
\* sent but not stored.
Persisted(w) ==
    LET cs == Checkpoints(w)
    IN  IF failedAt[w] \in CheckpointLabels THEN SubSeq(cs, 1, Len(cs) - 1) ELSE cs
\* The except block has recorded the failure and not yet left.
InHandler(w) == pc[w] \in {"except_get_job", "except_webhook", "reraise"}
\* Position of the 'failed' status update of the run; 0 when there is none.
FailedUpdateAt(w) ==
    IF \E i \in DOMAIN calls[w] : IsStatusCall(calls[w][i]) /\ calls[w][i].arg = "failed"
    THEN CHOOSE i \in DOMAIN calls[w] :
            IsStatusCall(calls[w][i]) /\ calls[w][i].arg = "failed"
    ELSE 0
\* Calls the except block makes after its status update.
IsHandlerCall(c) ==
    \/ c.op = "get_job" /\ c.arg = "failure webhook"
    \/ c.op = "send_webhook" /\ c.arg = "job.failed"

\* C5: when a stage raises, the Job is persisted 'failed' with the
\* exception's message as its error, progress keeps the value of the last
\* checkpoint persisted before the failure, no later stage runs, and the
\* exception is re-raised to the caller.
C5_StageFailureRecorded ==
    \A w \in Workers :
        excMsg[w] # None =>
            /\ InHandler(w) =>
                  /\ job.status = "failed"
                  /\ job.error = excMsg[w]
                  /\ Persisted(w) # <<>> =>
                        job.progress = Persisted(w)[Len(Persisted(w))]
            /\ FailedUpdateAt(w) > 0 =>
                  \A i \in (FailedUpdateAt(w) + 1)..Len(calls[w]) :
                      IsHandlerCall(calls[w][i])
            /\ Ended(w) /\ ~StoreFailed(w) =>
                  outcome[w] = "raised" /\ raisedMsg[w] = excMsg[w]

\* C6: when train returns a TrainingResult with success=false, checkpoints
\* 85 and 95 are not persisted, the artifact is neither downloaded nor
\* uploaded, no Version is appended, and the Job is marked 'failed' with the
\* error carried by the TrainingResult.
C6_TrainingFailureStopsPipeline ==
    \A w \in Workers :
        Called(w, "train", "") /\ pc[w] # "update_85" /\ ~trainingResult[w].success =>
            /\ CheckpointAt(w, 85) = 0
            /\ CheckpointAt(w, 95) = 0
            /\ ~Called(w, "download_from_url", "artifact")
            /\ ~Called(w, "upload_file", "artifact")
            /\ ~Called(w, "add_version", "")
            /\ Ended(w) /\ ~StoreFailed(w) =>
                  job.status = "failed" /\ job.error = trainingResult[w].error

\* C7: when frame extraction fails with a VideoProcessingError, checkpoint 35
\* is not persisted, build_dataset is not called, and the Job is marked
\* 'failed' with the video-processing error as its message.
C7_VideoFailureIsFatal ==
    \A w \in Workers :
        Called(w, "process_video", "") /\ pc[w] # "update_35"
        /\ ~videoResult[w].success =>
            /\ CheckpointAt(w, 35) = 0
            /\ ~Called(w, "build_dataset", "")
            /\ Ended(w) /\ ~StoreFailed(w) =>
                  job.status = "failed" /\ job.error = videoResult[w].error

\* Fewer frames than the minimum survived assembly: DatasetBuilder enforces
\* its own min_frames, the orchestrator's gate enforces Config.min_frames.
FewerThanMinimum(w) ==
    /\ survivors[w] # NotBuilt
    /\ survivors[w] < (IF builder[w] = "DatasetBuilder"
                       THEN BuilderMinFrames ELSE ConfigMinFrames)
IsInsufficientFrames(msg) == msg \in {InsufficientBuild, InsufficientGate}

\* C8: when fewer than the minimum number of frames survive assembly, the
\* run uploads no dataset and calls no training, the last status update it
\* makes is ('failed', error=<message>) with no progress argument, and (the
\* job store answering) an 'Insufficient frames' error is raised to the caller.
C8_InsufficientFramesGate ==
    \A w \in Workers :
        Ended(w) /\ FewerThanMinimum(w) =>
            /\ ~Called(w, "upload_directory", "")
            /\ ~Called(w, "train", "")
            /\ IsInsufficientFrames(excMsg[w])
            /\ StatusCalls(w)[Len(StatusCalls(w))]
                  = StatusCall("failed", NoProgress, excMsg[w])
            /\ ~StoreFailed(w) =>
                  outcome[w] = "raised" /\ IsInsufficientFrames(raisedMsg[w])

\* The orchestrator's gate has rejected a dataset of 5 frames and the call
\* has raised.
C8_Witness ==
    \E w \in Workers :
        /\ Ended(w) /\ builder[w] = "Stub" /\ survivors[w] = 5
        /\ failedAt[w] = "check_frames"
        /\ outcome[w] = "raised" /\ raisedMsg[w] = InsufficientGate

\* C9: whenever process_training_job has returned or raised, the per-job
\* temporary directory the run created, and everything in it, is gone.
C9_TempDirRemoved ==
    \A w \in Workers :
        Ended(w) => ~\E p \in fs : p.kind = "jobdir" /\ p.owner = w

\* A run that had downloaded into its directory ended by an exception raised
\* inside the except block.
C9_Witness ==
    \E w \in Workers :
        /\ Ended(w) /\ tempJobDir[w] # None
        /\ Called(w, "download_from_url", "source")
        /\ excMsg[w] \notin {None, DbError}
        /\ outcome[w] = "raised" /\ raisedMsg[w] = DbError

\* C10: when process_training_job has returned or raised, none of the
\* transient paths of the execution is left on disk: the source video, the
\* VideoProcessor's copy, the extracted frames, the provider's zip archive.
C10_TransientStorageReclaimed ==
    \A w \in Workers : Ended(w) => fs \cap Transient(w) = {}

\* A status in 200..299.
Is2xx(response) == response.kind = "status" /\ response.status \in 200..299
\* The attempts of the call's endpoint that answer 2xx.
Answering2xx(behaviour) == {k \in 1..MAX_ATTEMPTS : Is2xx(behaviour[k])}
\* send_webhook has returned from a call made with a URL.
Delivered == hook.pc = "returned" /\ hook.url \notin {None, ""}

\* C15: one send_webhook call makes at most 3 POST attempts; the first
\* attempt answered with a status in 200..299 ends the call with success
\* and attempts equal to the number of that attempt, no POST following it;
\* the call reports success only for such an attempt.
C15_AtMostThreeAttempts ==
    Delivered =>
        /\ hook.ret.posts <= 3
        /\ \A k \in Answering2xx(hook.behaviour) :
              (\A i \in 1..(k - 1) : ~Is2xx(hook.behaviour[i])) =>
                  /\ hook.ret.success
                  /\ hook.ret.attempts = k
                  /\ hook.ret.posts = k
        /\ hook.ret.success => hook.ret.attempts \in Answering2xx(hook.behaviour)

\* Attempt 1 answers 300, attempt 2 answers 299 and ends the call although
\* attempt 3 would have answered 200.
C15_Witness ==
    /\ Delivered
    /\ hook.behaviour = <<Status(300), Status(299), Status(200)>>
    /\ hook.ret.success /\ hook.ret.attempts = 2 /\ hook.ret.posts = 2

C17_DeliveryFailuresAlike ==
    Delivered =>
        /\ \A other \in HookBehaviours :
              Answering2xx(other) = Answering2xx(hook.behaviour) =>
                  LET r == SendWebhook(hook.url, other, 1)
                  IN  /\ r.success = hook.ret.success
                      /\ r.attempts = hook.ret.attempts
                      /\ r.posts = hook.ret.posts
                      /\ r.waits = hook.ret.waits
        /\ Answering2xx(hook.behaviour) = {} =>
              /\ ~hook.ret.success
              /\ hook.ret.attempts = 3
              /\ hook.ret.error = AttemptError(hook.behaviour[3])
              /\ {"success", "attempts", "error"} \subseteq hook.ret.keys

\* A timeout, a connection error and a 300 in turn: the call has returned
\* the failure of the third attempt.
C17_Witness ==
    /\ Delivered
    /\ hook.behaviour = <<Timeout, ConnectionError, Status(300)>>
    /\ ~hook.ret.success /\ hook.ret.attempts = 3
    /\ hook.ret.error = "Webhook returned 300"

\* C18: every result of send_webhook, whatever the url argument (an empty
\* or missing one included) and the endpoint, holds 'success' and
\* 'attempts' with 1 <= attempts <= 3, and holds 'error' when success is
\* false.
C18_ResultShape ==
    hook.pc = "returned" =>
        /\ {"success", "attempts"} \subseteq hook.ret.keys
        /\ hook.ret.attempts \in 1..3
        /\ ~hook.ret.success => "error" \in hook.ret.keys

\* A webhook URL is registered on the record.
UrlRegistered(jobData) == jobData.webhookUrl \notin {None, ""}
\* The run's notifications with the given event.
Notices(w, event) ==
    SelectSeq(sent[w], LAMBDA d : d.payload.event = event)
NoJobDirLeft(w) == ~\E p \in fs : p.kind = "jobdir" /\ p.owner = w

\* C11: on the failure path a job.failed notification is attempted exactly
\* when the Job record has a webhook URL; whatever its outcome, nothing is
\* raised in its place, the Job's record stays as the except block read it,
\* the temporary directory is removed and the stage's exception is re-raised.
C11_FailureNotification ==
    \A w \in Workers :
        /\ pc[w] = "reraise" =>
              /\ Called(w, "send_webhook", "job.failed") <=> UrlRegistered(JobOf(w))
              /\ Len(Notices(w, "job.failed")) = IF UrlRegistered(JobOf(w)) THEN 1 ELSE 0
        /\ \A i \in DOMAIN Notices(w, "job.failed") :
              /\ Notices(w, "job.failed")[i].url = JobOf(w).webhookUrl
              /\ Notices(w, "job.failed")[i].payload.error = excMsg[w]
        /\ Called(w, "send_webhook", "job.failed") =>
              /\ pc[w] \in {"reraise", "finally", "ended"}
              /\ JobOf(w) = jobRead[w]
              /\ JobOf(w).status = "failed"
              /\ Ended(w) =>
                    /\ outcome[w] = "raised"
                    /\ raisedMsg[w] = excMsg[w]
                    /\ NoJobDirLeft(w)

\* Every attempt of the failure notification failed, and the run ended by
\* re-raising the stage's exception with its directory removed.
C11_Witness ==
    \E w \in Workers :
        /\ Ended(w) /\ tempJobDir[w] # None
        /\ ~failureNotice[w].success /\ failureNotice[w].posts = 3
        /\ excMsg[w] = "download failed" /\ raisedMsg[w] = excMsg[w]

\* C12: under single-writer execution the Version numbers of the Job are
\* 1, 2, ..., n in append order, and each number allocated equals the
\* version count read immediately before plus 1.
C12_VersionNumbersSequential ==
    /\ \A i \in DOMAIN job.versions : job.versions[i].version = i
    /\ \A w \in Workers :
          pc[w] \in {"upload_lora", "add_version"} =>
              /\ version[w] = Len(jobRead[w].versions) + 1
              /\ jobRead[w].versions = job.versions

\* Two runs have each appended a Version.
C12_Witness ==
    /\ Len(job.versions) = 2
    /\ job.versions[2].version = 2
    /\ \E w \in Workers : Ended(w) /\ outcome[w] = "returned"

\* C19: a run that returns has sent the job.completed notification exactly
\* once if the Job record has a webhook URL and not at all otherwise; the
\* notification follows the 'completed' update and the appended Version, goes
\* to the registered URL, carries the lora field only for a 'lora-training'
\* job, with the version this run appended; a failed delivery leaves the Job
\* 'completed'.
C19_CompletionNotification ==
    \A w \in Workers :
        /\ \A i \in DOMAIN Notices(w, "job.completed") :
              LET d == Notices(w, "job.completed")[i]
              IN  /\ d.url = JobOf(w).webhookUrl
                  /\ UrlRegistered(JobOf(w))
                  /\ d.payload.hasLora <=> JobOf(w).type = "lora-training"
                  /\ d.payload.hasLora =>
                        /\ d.payload.loraVersion = version[w]
                        /\ \E k \in DOMAIN JobOf(w).versions :
                              JobOf(w).versions[k] = VersionData(w)
                  /\ 0 < FirstCall(w, "add_version", "")
                  /\ FirstCall(w, "add_version", "") < CheckpointAt(w, 100)
                  /\ CheckpointAt(w, 100) < FirstCall(w, "send_webhook", "job.completed")
        /\ pc[w] \in {"update_webhook", "return"} => JobOf(w).status = "completed"
        /\ Ended(w) /\ outcome[w] = "returned" =>
              /\ Len(Notices(w, "job.completed"))
                    = IF UrlRegistered(JobOf(w)) THEN 1 ELSE 0
              /\ CountCalls(w, "send_webhook") = Len(Notices(w, "job.completed"))
              /\ JobOf(w).status = "completed"

\* A run has returned after every attempt of its completion notification
\* failed.
C19_Witness ==
    \E w \in Workers :
        /\ Ended(w) /\ outcome[w] = "returned"
        /\ Len(Notices(w, "job.completed")) = 1
        /\ ~webhookResult[w].success /\ webhookResult[w].posts = 3
        /\ job.status = "completed" /\ job.webhookLastError # None

\* C20: when process_training_job has returned the Job is 'completed', when
\* it has raised the Job is 'failed', and in no other case; the Job is not
\* left 'processing' by a call that has ended.
C20_OneTerminalStatus ==
    \A w \in Workers :
        Ended(w) =>
            /\ outcome[w] = "returned" <=> JobOf(w).status = "completed"
            /\ outcome[w] = "raised" <=> JobOf(w).status = "failed"

\* Worker w's run has pushed its Version onto the Job.
Appended(w) ==
    pc[w] \in {"update_completed", "build_result", "get_job_webhook",
               "send_completion", "update_webhook", "return"}
       \/ (Ended(w) /\ outcome[w] = "returned")
       \/ (failedAt[w] \in {"update_completed", "get_job_webhook", "send_completion",
                            "update_webhook"})
\* Two different invocations on the same Job id.
SameJob(w1, w2) == w1 # w2 /\ args[w1].job_id = args[w2].job_id
\* The Job holds two Versions numbered n under one storage key.
TwiceNumbered(j, n) ==
    \E a, b \in DOMAIN j.versions :
        /\ a < b
        /\ j.versions[a].version = n /\ j.versions[b].version = n
        /\ j.versions[a].s3Key = j.versions[b].s3Key

\* C13: with two invocations interleaved on one Job id, whenever both read the
\* same version count and both appended, the Job holds two Versions with the
\* same number and the same artifact key, which was written to storage; the
\* witness is the reachable state where that happened and a write has also
\* lowered the persisted progress of the Job.
C13_OverlappingRunsCollide ==
    \A w1, w2 \in Workers :
        SameJob(w1, w2) /\ Appended(w1) /\ Appended(w2) /\ version[w1] = version[w2] =>
            /\ TwiceNumbered(JobOf(w1), version[w1])
            /\ VersionData(w1).s3Key = VersionData(w2).s3Key
            /\ VersionData(w1).s3Key \in blobs

\* Both invocations have returned; the Job lists version 1 twice and its
\* progress went down on the way.
C13_Witness ==
    \E w1, w2 \in Workers :
        /\ SameJob(w1, w2)
        /\ Ended(w1) /\ outcome[w1] = "returned"
        /\ Ended(w2) /\ outcome[w2] = "returned"
        /\ version[w1] = 1 /\ version[w2] = 1
        /\ Len(JobOf(w1).versions) = 2
        /\ TwiceNumbered(JobOf(w1), 1)
        /\ progressLowered[args[w1].job_id]

\* Worker w's run is in flight.
InFlight(w) == pc[w] \notin {"idle", "ended"}
\* Worker w's run has had DatasetBuilder write output_dir/<lora_name>.
WroteDataset(w) ==
    /\ builder[w] = "DatasetBuilder"
    /\ survivors[w] # NotBuilt /\ survivors[w] >= BuilderMinFrames

\* C14: two invocations in flight on different Job ids write disjoint local
\* paths, and the dataset bundle directory a run wrote is not overwritten by
\* the other Job while the run is in flight.
C14_JobsShareNoLocalFiles ==
    \A w1, w2 \in Workers :
        w1 # w2 /\ args[w1].job_id # args[w2].job_id /\ InFlight(w1) /\ InFlight(w2) =>
            /\ Transient(w1) \cap Transient(w2) = {}
            /\ WroteDataset(w1) => datasetWriter[args[w1].lora_name] = w1

\* build_dataset has ended, by return or by raise.
BuildEnded == unit.op = "build_dataset" /\ unit.pc \in {"returned", "raised"}
BuildReturned == unit.op = "build_dataset" /\ unit.pc = "returned"

\* C21: build_dataset raises DatasetBuildError exactly when fewer than
\* min_frames frames remain after the optional quality filter, and returns a
\* TrainingDataset otherwise.
C21_RaisesIffTooFewFrames ==
    BuildEnded =>
        (unit.pc = "raised" /\ unit.raise = "DatasetBuildError"
            <=> Len(unit.filtered) < unit.builder.min_frames)

\* C22: every TrainingDataset build_dataset returns has
\* min_frames <= image_count <= max_frames, whatever the configured pair.
C22_ImageCountWithinLimits ==
    BuildReturned =>
        /\ unit.builder.min_frames <= unit.ret.image_count
        /\ unit.ret.image_count <= unit.builder.max_frames

\* C23: when more than max_frames frames remain after filtering, the returned
\* dataset holds exactly the first max_frames of them in their order, and
\* image p of the bundle is the image of the p-th filtered frame.
C23_FrontTruncation ==
    BuildReturned /\ Len(unit.filtered) > unit.builder.max_frames =>
        /\ unit.ret.image_count = unit.builder.max_frames
        /\ Len(unit.ret.metadata.frames) = unit.builder.max_frames
        /\ \A p \in 1..unit.builder.max_frames :
              /\ unit.ret.metadata.frames[p] = unit.filtered[p].scene_number
              /\ File(p, unit.filtered[p].file_path) \in unit.bundle.images

\* Three different frames passed the filter and the builder keeps two.
C23_Witness ==
    /\ BuildReturned
    /\ unit.filter_quality
    /\ unit.builder.max_frames = 2
    /\ unit.filtered = <<Frame(3), Frame(1), Frame(2)>>
    /\ unit.ret.metadata.frames = <<3, 1>>

\* The frame's own assessment exists and is acceptable.
Acceptable(images, image_path) == images[image_path.number] = SharpFace
FilterReturned == unit.op = "filter_frames" /\ unit.pc = "returned"

\* C24: the accepted paths of filter_quality_frames and the accepted frames
\* of filter_frames are the input with the entries that are not acceptable
\* removed and nothing else changed: same order, each acceptable entry kept.
C24_FilterKeepsOrder ==
    FilterReturned =>
        /\ unit.detector.accepted
              = SelectSeq(unit.paths, LAMBDA path : Acceptable(unit.images, path))
        /\ unit.ret.frames
              = SelectSeq(unit.frames,
                          LAMBDA frame : Acceptable(unit.images, frame.file_path))

\* A rejected frame stood between two accepted ones, given out of scene order.
C24_Witness ==
    /\ FilterReturned
    /\ unit.frames = <<Frame(3), Frame(2), Frame(1)>>
    /\ unit.images[2] = NoFace
    /\ unit.ret.frames = <<Frame(3), Frame(1)>>
    /\ unit.detector.accepted = <<FramePath(3), FramePath(1)>>

\* C25: filter_quality_frames returns one assessment per input frame: the
\* list is as long as the input and its i-th entry was measured on the i-th
\* input.
C25_OneAssessmentPerInput ==
    FilterReturned =>
        /\ Len(unit.detector.qualities) = Len(unit.paths)
        /\ \A i \in DOMAIN unit.detector.qualities :
              i \in DOMAIN unit.paths
                 /\ unit.detector.qualities[i].measured_on = unit.paths[i].number

\* Scene numbers grow along the list, as extract_frames numbers them.
InExtractionOrder(frames) ==
    \A i, k \in DOMAIN frames : i < k => frames[i].scene_number < frames[k].scene_number

\* C28: with caption variations on, the caption file of the retained frame at
\* position p holds template number p mod T with the trigger phrase, also
\* when extraction or the filter dropped earlier frames.
C28_CaptionByPosition ==
    BuildReturned /\ unit.use_variations /\ InExtractionOrder(unit.frames) =>
        \A p \in 1..unit.ret.image_count :
            File(p, Format(VariationTemplates[(p % Len(VariationTemplates)) + 1],
                           unit.trigger)) \in unit.bundle.captions

\* C29: after build_dataset returns with image_count N the images directory
\* holds exactly the files 1..N and the captions directory the matching N
\* files, also when an earlier bundle of the same name held more.
C29_BundleHoldsExactlyN ==
    BuildReturned =>
        /\ {f.name : f \in unit.bundle.images} = 1..unit.ret.image_count
        /\ {f.name : f \in unit.bundle.captions} = 1..unit.ret.image_count

\* The segments cover [0, D]: the first starts at 0, each ends where the
\* next starts, the last ends at D, and none ends before it starts.
Covers(segments, duration) ==
    /\ Len(segments) >= 1
    /\ segments[1].start = Zero
    /\ segments[Len(segments)].end = duration
    /\ \A i \in 1..(Len(segments) - 1) : segments[i].end = segments[i + 1].start
    /\ \A i \in DOMAIN segments : ~Less(segments[i].end, segments[i].start)

\* C26: detect_scenes returns segments that cover [0, D] without gap or
\* overlap, the one segment (0, D) when ffmpeg printed no cut, and
\* extract_frames attempts one frame per segment, at its midpoint.
C26_ScenesCoverVideo ==
    unit.op = "detect_scenes" =>
        /\ unit.pc \in {"scenes", "returned"} =>
              /\ Covers(unit.scenes, get_video_duration(unit.stdout))
              /\ unit.scene_times = <<>> =>
                    unit.scenes = <<Segment(Zero, get_video_duration(unit.stdout))>>
        /\ unit.pc = "returned" =>
              /\ Len(unit.ret.attempts) = Len(unit.scenes)
              /\ \A i \in DOMAIN unit.scenes :
                    ExactSum(unit.ret.attempts[i], unit.ret.attempts[i])
                       = ExactSum(unit.scenes[i].start, unit.scenes[i].end)

\* The least n with n * L >= D: ceil(D / L).
CeilOfQuotient(duration, interval_seconds) ==
    CHOOSE n \in 1..(MaxWindows + 1) :
        /\ ~Less(Times(n, interval_seconds), duration)
        /\ Less(Times(n - 1, interval_seconds), duration)

\* C27: extract_intervals returns ceil(D / L) windows that cover [0, D]
\* without gap or overlap, each L long except possibly the last, which ends
\* at D.
C27_IntervalsCoverVideo ==
    unit.op = "extract_intervals" /\ unit.pc = "returned" =>
        LET duration == get_video_duration(unit.stdout)
        IN  /\ Len(unit.ret) = CeilOfQuotient(duration, unit.interval_seconds)
            /\ Covers(unit.ret, duration)
            /\ \A i \in 1..(Len(unit.ret) - 1) :
                  unit.ret[i].end = ExactSum(unit.ret[i].start, unit.interval_seconds)

\* The provider's response carries no LoRA URL.
Malformed(result_data) ==
    result_data.type # "dict" \/ result_data.lora_file # "dict with url"
\* One of the provider-side failures happened during the call.
ProviderSideFailure ==
    \/ ~validate_dataset(unit.dataset_path)
    \/ unit.upload.raises
    \/ unit.remote.raises
    \/ Malformed(unit.remote.value)

\* C30: train returns, and after a failed validation, a failed archive
\* upload, a failed or rejected remote call or a malformed response the
\* TrainingResult has success false and a non-empty error.
C30_ProviderFailuresReturned ==
    unit.op = "train" /\ unit.pc # "call" =>
        /\ unit.pc = "returned"
        /\ ProviderSideFailure =>
              /\ ~unit.out.ret.success
              /\ unit.out.ret.error \notin {None, ""}

\* C31: a TrainingResult returned by train with success true has a lora_url,
\* whatever the shape of the provider's response.
C31_SuccessExposesUrl ==
    unit.op = "train" /\ unit.pc = "returned" /\ unit.out.ret.success =>
        unit.out.ret.lora_url # None

\* extract_frames has returned for the scenes of detect_scenes.
FramesReturned ==
    unit.op = "detect_scenes" /\ unit.pc = "returned" /\ unit.ret.raise = None
\* The scenes whose frame ffmpeg wrote.
SampledScenes == {i \in DOMAIN unit.scenes : extract_single_frame(unit.samples[i])}

\* C32: extract_frames tries every segment exactly once, also after a segment
\* whose frame could not be sampled; the returned frames are those of the
\* sampled segments in segment order, each with its segment's 1-based index
\* as scene_number, so the indices grow strictly and may have gaps.
C32_FailedSegmentsSkipped ==
    FramesReturned =>
        /\ \A i \in DOMAIN unit.scenes :
              Cardinality({k \in DOMAIN unit.ret.tried : unit.ret.tried[k] = i}) = 1
        /\ {unit.ret.frames[k].scene_number : k \in DOMAIN unit.ret.frames} = SampledScenes
        /\ \A k \in DOMAIN unit.ret.frames :
              /\ unit.ret.frames[k] = Frame(unit.ret.frames[k].scene_number)
              /\ k > 1 => unit.ret.frames[k - 1].scene_number
                             < unit.ret.frames[k].scene_number

\* Four segments, the second and third not sampled: frames 1 and 4 return.
C32_Witness ==
    /\ FramesReturned
    /\ Len(unit.scenes) = 4
    /\ SampledScenes = {1, 4}
    /\ unit.ret.frames = <<Frame(1), Frame(4)>>
    /\ unit.samples[2].raises = "TimeoutExpired"
    /\ unit.samples[3].returncode = 1

\* assess_quality has returned for an image cv2 decodes, on a detector whose
\* cascade loaded.
Assessed ==
    /\ unit.op = "assess_quality" /\ unit.pc = "returned"
    /\ unit.image.decodes /\ unit.detector.cascade

\* C33: for a decodable image assess_quality returns an ImageQuality whose
\* is_acceptable is true exactly when face_count >= 1, face_confidence >=
\* min_face_confidence and blur_score >= blur_threshold; face_confidence is
\* 0 without a face and at most 1 (100 hundredths).
C33_AcceptDecision ==
    Assessed =>
        /\ ~unit.quality.none
        /\ unit.quality.is_acceptable <=>
              /\ unit.quality.face_count >= 1
              /\ unit.quality.face_confidence >= unit.detector.min_face_confidence
              /\ unit.quality.blur_score >= unit.detector.blur_threshold
        /\ unit.quality.face_count = Len(unit.image.faces)
        /\ unit.quality.face_count = 0 => unit.quality.face_confidence = 0
        /\ unit.quality.face_confidence <= 100

\* A face large enough on an image too blurred: not acceptable; and the
\* confidence of a face of 30 % of the image is capped at 1.
C33_Witness ==
    /\ Assessed
    /\ unit.detector = DefaultDetector
    /\ unit.image.faces = <<8, 30>>
    /\ unit.image.blur = 50
    /\ unit.quality.face_confidence = 100
    /\ ~unit.quality.is_acceptable

\* The positions of the input frames whose image was assessed (cv2 read it),
\* and of those assessed acceptable.
AssessedFrames ==
    {i \in DOMAIN unit.frames : unit.images[unit.frames[i].file_path.number] # Unreadable}
AcceptableFrames ==
    {i \in DOMAIN unit.frames : Acceptable(unit.images, unit.frames[i].file_path)}

\* C34: the quality_stats of the metadata count the assessments: accepted is
\* the number of frames assessed acceptable, rejected the number assessed not
\* acceptable, and they add up to total_assessed, also after a truncation
\* to max_frames.
C34_QualityStatsAccurate ==
    BuildReturned /\ unit.filter_quality /\ unit.ret.metadata.quality_stats # NoStats =>
        LET quality_stats == unit.ret.metadata.quality_stats
        IN  /\ quality_stats.accepted = Cardinality(AcceptableFrames)
            /\ quality_stats.rejected = Cardinality(AssessedFrames \ AcceptableFrames)
            /\ quality_stats.accepted + quality_stats.rejected
                  = quality_stats.total_assessed

\* The sum of sizeBytes over a version list.
RECURSIVE SumOfSizes(_)
SumOfSizes(versions) ==
    IF versions = <<>> THEN 0
    ELSE SizeBytes(Head(versions)) + SumOfSizes(Tail(versions))
\* jobs' differs from jobs by one Version appended to the list of one Job.
OneVersionAppended ==
    \E id \in JobIds :
        /\ Len(jobs'[id].versions) = Len(jobs[id].versions) + 1
        /\ SubSeq(jobs'[id].versions, 1, Len(jobs[id].versions)) = jobs[id].versions
        /\ \A other \in JobIds \ {id} : jobs'[other].versions = jobs[other].versions

\* C35: on Jobs that start with no Version and storageBytes 0, storageBytes
\* is always the sum of sizeBytes over the Job's versions; an add_version
\* appends one Version to one Job (none when it fails or matches no Job) and
\* leaves every recorded Version as it was; update_job_status changes
\* neither the version lists nor the counters.
C35_StorageIsSumOfVersions ==
    /\ [](unit.op = "store" =>
             \A id \in JobIds : jobs[id].storageBytes = SumOfSizes(jobs[id].versions))
    /\ [][unit.op = "store" =>
             /\ unit'.last = "add_version" =>
                   \/ OneVersionAppended
                   \/ \A id \in JobIds : /\ jobs'[id].versions = jobs[id].versions
                                         /\ jobs'[id].storageBytes = jobs[id].storageBytes
             /\ unit'.last = "update_job_status" =>
                   \A id \in JobIds : /\ jobs'[id].versions = jobs[id].versions
                                      /\ jobs'[id].storageBytes = jobs[id].storageBytes]_vars

\* Two Versions of sizes 1 and 2 on Job 1, then a status update: the counter
\* is 3.
C35_Witness ==
    /\ unit.op = "store" /\ unit.last = "update_job_status" /\ unit.job_id = 1
    /\ Len(jobs[1].versions) = 2
    /\ SizeBytes(jobs[1].versions[1]) = 1 /\ SizeBytes(jobs[1].versions[2]) = 2
    /\ jobs[1].storageBytes = 3
    /\ jobs[1].status = "completed"

\* C36: a run of process_training_job that has ended by raising, or with its
\* Job 'failed', has appended no Version to the Job.
C36_VersionOnlyFromCompletedRun ==
    \A w \in Workers :
        Ended(w) /\ (outcome[w] = "raised" \/ JobOf(w).status = "failed") => ~Appended(w)

\* C37: one run sends notifications of one kind only: not a job.completed
\* and a job.failed both, so no job.failed after the completion of the Job
\* was notified.
C37_OneKindOfNotification ==
    \A w \in Workers :
        Notices(w, "job.completed") = <<>> \/ Notices(w, "job.failed") = <<>>

\* C38: extract_intervals returns for every duration and every
\* interval_seconds the constructor accepts, 0 included, and returns the
\* empty list for a video of duration 0.
C38_IntervalsTerminate ==
    /\ (unit.op = "intervals") ~> (unit.pc = "returned")
    /\ [](unit.op = "intervals" /\ unit.pc = "returned" /\ unit.duration = Zero =>
             unit.intervals = <<>>)

====
